---- MODULE Spec2Model ----
(***************************************************************************)
(* Activity-driven generation pipeline of the whiteboard canvas views      *)
(* (board view: src/app/board/[id]/page.tsx, home view: src/app/page.tsx), *)
(* the activity debouncer (src/hooks/useDebounceActivity.ts) and the       *)
(* tool-call argument accumulator of the voice page                        *)
(* (src/app/voice/page.tsx).                                               *)
(*                                                                         *)
(* One generation request is an async function; every await is a           *)
(* suspension point, and each action below is the code that runs between   *)
(* two suspension points (one event-loop task).  React state updates are   *)
(* taken to be committed, and effects re-run, within the task that makes   *)
(* them.  Time is not measured: a live timer may elapse at any later step.  *)
(*                                                                         *)
(* Eleven specifications share the actions: Spec (a canvas view without    *)
(* a voice session), SpecVoice (the board view with a voice session),      *)
(* SpecReview (the accept and reject handlers on canvases with pending     *)
(* artifacts), SpecTool (the voice page's argument accumulator), SpecAgent *)
(* (the voice session's life cycle and its tool calls, on the board view   *)
(* and on the voice page), SpecDebounce (the debouncer with the browser's  *)
(* timers), SpecFit (the placement of a decoded image in the viewport),    *)
(* SpecWrite (the canvas writes and the suppression flag, with writes that *)
(* throw; SpecWriteFair adds the fairness of the timers), SpecStages (the  *)
(* multi-stage variant of the generation handler), SpecPan (a canvas view  *)
(* whose user pans and zooms) and SpecSave (the board view's auto-save;    *)
(* SpecSaveFair adds the fairness of the timers).                          *)
(***************************************************************************)
EXTENDS Integers, Sequences, FiniteSets, TLC

\* ---------------------------------------------------------------- bounds
\* The bounds limit what the environment does: how many requests are suspended
\* at once, how many images the service returns, how many failures occur while
\* an error is still displayed.
MaxLive == 2         \* generation requests suspended at the same time
MaxShapes == 1       \* shapes the pipeline creates in one behaviour
MaxTimers == 1       \* live status-reset timers of one kind
MaxUser == 1         \* distinct shapes the user can draw and erase
MaxViewport == 2     \* distinct viewport positions
MaxPending == 3      \* pending artifacts on a canvas under review
MaxEvents == 4       \* realtime events received by the voice page
MaxTimeouts == 5     \* timers the debouncer schedules in one behaviour
MaxDim == 8          \* viewport and image sides, in units of 200 px
MaxRuns == 2         \* requests of the multi-stage variant in one behaviour

\* ------------------------------------------------------- program constants
OpacityPending == 30     \* opacity 0.3, in percent
OpacityFull == 100       \* opacity 1.0, in percent
NoReq == 0               \* abortControllerRef.current = null

Views == {"board", "home"}          \* the two canvas views
Modes == {"off", "feedback", "suggest", "answer"}
Slots == 1..MaxLive
NoImage == [px |-> {}, vp |-> 0]       \* lastCanvasImageRef.current = null

VARIABLES
    view,                  \* the page mounted: "board", "home" or "voice"
    shapes,                \* editor store: shape id -> [opacity, isLocked]
    assets,                \* editor store: asset ids
    viewport,              \* editor.getViewportPageBounds()
    pendingImageIds,       \* useState<TLShapeId[]>
    status,                \* useState<StatusIndicatorState>
    errorMessage,          \* useState<string>: "" or a message
    isVoiceSessionActive,  \* useState(false), board view
    assistanceMode,        \* useState("off"), board view
    isProcessingRef,       \* useRef(false)
    abortControllerRef,    \* useRef(null): the request whose controller it holds
    lastCanvasImageRef,    \* useRef(null): stored fingerprint
    isUpdatingImageRef,    \* useRef(false): suppression flag
    flagTimers,            \* live 100 ms timers that clear the flag, oldest first;
                           \* TRUE once the store has notified the write that set it
    pendingNotify,         \* a pipeline write not yet delivered to store listeners
    timeoutRef,            \* debouncer: a countdown is live
    successTimers,         \* live 2 s timers that reset the status
    errorTimers,           \* live 3 s timers that reset status and error message
    voice,                 \* voice session: "idle", "connecting", "open"
    voicePending,          \* pendingImageIds in the closure the session's handlers hold
    req,                   \* the suspended call chains of generateSolution
    nextShape,             \* createShapeId() / AssetRecordType.createId()
    pendingToolArgs,       \* voice page: call id -> accumulated argument string
    eventLog,              \* voice page: the events received, in arrival order
    dispatched,            \* voice page: tool calls handed to handleToolCall
    rtc,                   \* voice session: the data channel, peer connection, microphone
                           \* stream and audio element, and the refs that hold them
    isMuted,               \* useState(false), voice controls of the board view
    voiceStatus,           \* useState<VoiceStatus>("idle") / useState("Idle")
    calls,                 \* the suspended call chains of handleFunctionCall
    outbox,                \* the messages sent on the data channel by the tool handlers
    debouncer,             \* useDebounceActivity on its own, with the browser's timers
    fit,                   \* one placement of a decoded image in a viewport
    stages,                \* the multi-stage variant of handleAutoGeneration
    autosave               \* board view: the auto-save effect

canvasVars == <<shapes, assets, viewport>>
uiVars == <<pendingImageIds, status, errorMessage, isVoiceSessionActive, assistanceMode>>
refVars == <<isProcessingRef, abortControllerRef, lastCanvasImageRef, isUpdatingImageRef>>
timerVars == <<flagTimers, pendingNotify, timeoutRef, successTimers, errorTimers>>
voiceVars == <<voice, voicePending>>
reqVars == <<req, nextShape>>
toolVars == <<pendingToolArgs, eventLog, dispatched>>
sessionVars == <<rtc, isMuted>>
callVars == <<voiceStatus, calls, outbox>>
unitVars == <<debouncer, fit, stages, autosave>>
vars == <<view, canvasVars, uiVars, refVars, timerVars, voiceVars, reqVars, toolVars,
          sessionVars, callVars, unitVars>>

\* ---------------------------------------------------------------- helpers
Range(s) == {s[i] : i \in 1..Len(s)}

\* Array.prototype.filter(id => id !== shapeId)
RECURSIVE FilterOut(_, _)
FilterOut(s, x) ==
    IF s = <<>> THEN <<>>
    ELSE IF Head(s) = x THEN FilterOut(Tail(s), x)
    ELSE <<Head(s)>> \o FilterOut(Tail(s), x)

\* no call chain in this slot (before a request starts, after it returns)
IdleReq == [pc |-> "none", aborted |-> FALSE, force |-> FALSE, mode |-> "",
            isFeedbackMode |-> FALSE, vp |-> 0, img |-> NoImage]
Live == {r \in Slots : req[r].pc # "none"}
FreeSlot == CHOOSE r \in Slots \ Live : \A q \in Slots \ Live : r <= q

\* editor.toImage + FileReader.readAsDataURL: the raster encoding of the given
\* shapes inside the given bounds (scale 1, padding 0, background on)
Render(ids, vp) == [px |-> {<<i, shapes[i].opacity>> : i \in ids}, vp |-> vp]

\* [...shapeIds].filter(id => !pendingImageIds.includes(id))
ShapesToCapture(shapeIds, pend) == {i \in shapeIds : i \notin Range(pend)}

\* ------------------------------------------------------ editor (tldraw) calls
\* editor.updateShape: a missing shape is skipped, and so is a locked one
\* unless the partial carries isLocked; lockTo and opacityTo are -1 when the
\* partial omits the field
UpdateShape(sh, id, lockTo, opacityTo) ==
    IF id \notin DOMAIN sh THEN sh
    ELSE IF sh[id].isLocked /\ lockTo = -1 THEN sh
    ELSE [sh EXCEPT ![id].opacity = IF opacityTo = -1 THEN sh[id].opacity ELSE opacityTo,
                    ![id].isLocked = IF lockTo = -1 THEN sh[id].isLocked ELSE lockTo = 1]

\* editor.deleteShape: a locked shape is not deleted
DeleteShape(sh, id) ==
    IF id \in DOMAIN sh /\ ~sh[id].isLocked
    THEN [i \in DOMAIN sh \ {id} |-> sh[i]]
    ELSE sh

\* editor.createShape; vb is the viewport whose bounds gave the shape its x, y,
\* w and h (0 for a shape the user drew)
CreateShape(sh, id, opacity, locked, vb) ==
    [i \in DOMAIN sh \cup {id} |->
        IF i = id THEN [opacity |-> opacity, isLocked |-> locked, vb |-> vb] ELSE sh[i]]

\* ------------------------------------------------------------- debouncer
\* resetTimer(): clearTimer() then setTimeout(callback, delay)
ResetTimer == timeoutRef' = TRUE

\* handleHistoryChange: ignored while the suppression flag is set
HandleHistoryChange ==
    IF isUpdatingImageRef
    THEN UNCHANGED timeoutRef
    ELSE ResetTimer

\* abortControllerRef.current.abort(): the call chain's signal is aborted.  The
\* fields an aborted chain never reads again are reset: the mode and viewport
\* while it waits for the FileReader (it still compares and stores its
\* fingerprint), every field but the stage at the other suspension points.
Abort(q) ==
    IF q.pc = "reader"
    THEN [q EXCEPT !.aborted = TRUE, !.mode = "", !.isFeedbackMode = FALSE, !.vp = 0]
    ELSE [IdleReq EXCEPT !.pc = q.pc, !.aborted = TRUE]

\* handleEditorChange: abort the in-flight request unless suppressed
HandleEditorChange ==
    IF ~isUpdatingImageRef /\ abortControllerRef # NoReq
    THEN /\ req' = [req EXCEPT ![abortControllerRef] = Abort(@)]
         /\ abortControllerRef' = NoReq
         /\ status' = "idle"
         /\ isProcessingRef' = FALSE
    ELSE UNCHANGED <<req, abortControllerRef, status, isProcessingRef>>

\* The board view's auto-save effect: mounted once the effect has run,
\* saveTimeout a live 2 s timer, shapes and assets the document of the last
\* snapshot written (at mount, the document as loaded).  The canvas
\* specifications run with the effect not mounted.
NoAutosave == [mounted |-> FALSE, saveTimeout |-> FALSE, shapes |-> <<>>, assets |-> {}]

\* handleChange of the auto-save effect: ignored while the suppression flag is
\* set, else clearTimeout(saveTimeout) and a new 2 s timer
HandleChange(a) ==
    IF a.mounted /\ ~isUpdatingImageRef
    THEN [a EXCEPT !.saveTimeout = TRUE]
    ELSE a

\* One flush of the store's history to its listeners (source 'user', scope
\* 'document'): everything written so far is delivered in this one call.
StoreListeners ==
    /\ HandleHistoryChange
    /\ HandleEditorChange
    /\ autosave' = HandleChange(autosave)
    /\ pendingNotify' = FALSE
    /\ flagTimers' = [i \in 1..Len(flagTimers) |-> TRUE]

\* ------------------------------------------------ replies of the tool handler
CallIds == {"call_1", "call_2"}

\* no call chain of handleFunctionCall for this call id; dcOpen is the state of
\* the channel object the chain took from dcRef when it started, reported
\* whether a failure of the call has been written out (console.error, addLog),
\* escaped whether an exception has left the handler (its promise rejected)
IdleCall == [pc |-> "none", slot |-> 0, dcOpen |-> FALSE, reported |-> FALSE,
             escaped |-> FALSE]

\* conversation.item.create with a function_call_output item for the call
FunctionCallOutput(callId, output) ==
    [type |-> "function_call_output", call_id |-> callId, output |-> output]

\* { type: "response.create" }
ResponseCreate == [type |-> "response.create", call_id |-> "", output |-> ""]

\* the two dc.send calls that answer a tool call
Reply(callId, output) == <<FunctionCallOutput(callId, output), ResponseCreate>>

\* the end of handleFunctionCall: the reply is sent and the status set; on a
\* channel that has been closed dc.send throws, in the try block and again in
\* the catch block after its console.error, so nothing is sent, no status is
\* set and the exception leaves the handler
FinishCall(c, dcOpen, output) ==
    /\ calls' = [calls EXCEPT ![c] = [IdleCall EXCEPT !.pc = "done",
                     !.reported = (output = "error" \/ ~dcOpen),
                     !.escaped = ~dcOpen]]
    /\ IF dcOpen
       THEN /\ outbox' = outbox \o Reply(c, output)
            /\ voiceStatus' = (IF output = "error" THEN "error" ELSE "thinking")
       ELSE UNCHANGED <<outbox, voiceStatus>>

\* the draw_on_canvas calls that await the call chain in slot r
Awaiting(r) == {c \in CallIds : calls[c].pc = "solve" /\ calls[c].slot = r}

\* await onSolveWithPrompt(mode) resumes in the task in which the call chain of
\* generateSolution returns: success is reported whatever the chain did
Settle(r) ==
    IF req'[r].pc = "none" /\ Awaiting(r) # {}
    THEN LET c == CHOOSE a \in Awaiting(r) : TRUE
         IN  FinishCall(c, calls[c].dcOpen, "success")
    ELSE UNCHANGED callVars

\* ------------------------------------------------------ generation request
\* faulty variant: the voice session is not consulted
EntryGuardWithoutVoice(cVoice, mode, shapeIds) ==
    \/ isProcessingRef
    \/ view = "board" /\ mode = "off"
    \/ shapeIds = {}

\* the early returns of generateSolution / handleAutoGeneration before any state
\* is touched; cVoice and mode are the values in the calling closure
EntryGuard(cVoice, mode, shapeIds) ==
    \/ isProcessingRef
    \/ view = "board" /\ (cVoice \/ mode = "off")
    \/ shapeIds = {}

\* the mode member of the generate-solution request body; the home view sends
\* none
RequestMode(mode) == IF view = "board" THEN mode ELSE ""

\* const isFeedbackMode = mode === "feedback"; the home view has no modes
IsFeedbackMode(mode) == view = "board" /\ mode = "feedback"

\* finally { isProcessingRef.current = false; abortControllerRef.current = null }
Finally(r) ==
    /\ isProcessingRef' = FALSE
    /\ abortControllerRef' = NoReq

\* the synchronous head of generateSolution, up to the first await
StartRequest(cVoice, cPending, mode, force) ==
    LET shapeIds == DOMAIN shapes
        toCapture == ShapesToCapture(shapeIds, cPending)
    IN  IF EntryGuard(cVoice, mode, shapeIds)
        THEN UNCHANGED <<isProcessingRef, abortControllerRef, req>>
        ELSE IF toCapture = {}
        THEN /\ Finally(FreeSlot)
             /\ UNCHANGED req
        ELSE /\ isProcessingRef' = TRUE
             /\ abortControllerRef' = FreeSlot
             /\ req' = [req EXCEPT ![FreeSlot] =
                    [pc |-> "toImage", aborted |-> FALSE, force |-> force,
                     mode |-> RequestMode(mode),
                     isFeedbackMode |-> IsFeedbackMode(mode), vp |-> viewport,
                     img |-> Render(toCapture, viewport)]]

\* the debouncer's countdown elapses: callback() of the committed render
DebounceFire ==
    /\ timeoutRef
    /\ Live # Slots
    /\ timeoutRef' = FALSE
    /\ StartRequest(isVoiceSessionActive, pendingImageIds, assistanceMode, FALSE)
    /\ UNCHANGED <<view, unitVars, canvasVars, uiVars, lastCanvasImageRef, isUpdatingImageRef,
                   flagTimers, pendingNotify, successTimers, errorTimers,
                   voiceVars, nextShape, toolVars>>
    /\ UNCHANGED <<sessionVars, callVars>>

\* faulty variant: every failure is treated as a cancellation
CatchBlockSilent(r) ==
    /\ status' = "idle"
    /\ UNCHANGED <<errorMessage, errorTimers>>

\* faulty variant: the signal is not consulted, every failure is shown
CatchBlockLoud(r) ==
    /\ status' = "error"
    /\ errorMessage' = "error"
    /\ errorTimers' = errorTimers + 1

\* catch (error): a cancelled request goes quietly to idle, any other failure
\* shows the error and schedules its 3 s reset
CatchBlock(r) ==
    IF req[r].aborted
    THEN /\ status' = "idle"
         /\ UNCHANGED <<errorMessage, errorTimers>>
    ELSE /\ status' = "error"
         /\ errorMessage' = "error"
         /\ errorTimers' = errorTimers + 1

\* if (!blob || signal.aborted) return, after await editor.toImage(...)
AfterToImage(r) ==
    /\ req[r].pc = "toImage"
    /\ \E blob \in BOOLEAN :
        IF ~blob \/ req[r].aborted
        THEN /\ Finally(r)
             /\ req' = [req EXCEPT ![r] = IdleReq]
        ELSE /\ req' = [req EXCEPT ![r].pc = "reader"]
             /\ UNCHANGED <<isProcessingRef, abortControllerRef>>
    /\ UNCHANGED <<view, unitVars, canvasVars, uiVars, lastCanvasImageRef, isUpdatingImageRef,
                   timerVars, voiceVars, nextShape, toolVars>>
    /\ Settle(r)
    /\ UNCHANGED sessionVars

\* faulty variant: a canvas whose request failed is tried again while the error
\* is shown
ShortCircuitUnlessFailed(force, stored, base64) ==
    ~force /\ stored = base64 /\ status # "error"

\* faulty variant: the stored fingerprint is not consulted
ShortCircuitNever(force, stored, base64) == FALSE

\* faulty variant: the force option is not consulted
ShortCircuitAlways(force, stored, base64) == stored = base64

\* faulty variant: the comparison is made for forced runs instead of unforced ones
ShortCircuitForced(force, stored, base64) == force /\ stored = base64

\* !options?.force && lastCanvasImageRef.current === base64
ShortCircuit(force, stored, base64) == ~force /\ stored = base64

\* after await FileReader: fingerprint comparison, then the abort check, then
\* the generate-solution fetch is issued with the image and the mode
AfterReader(r) ==
    /\ req[r].pc = "reader"
    /\ IF ShortCircuit(req[r].force, lastCanvasImageRef, req[r].img)
       THEN /\ status' = "idle"
            /\ Finally(r)
            /\ req' = [req EXCEPT ![r] = IdleReq]
            /\ UNCHANGED lastCanvasImageRef
       ELSE /\ lastCanvasImageRef' = req[r].img
            /\ IF req[r].aborted
               THEN /\ Finally(r)
                    /\ req' = [req EXCEPT ![r] = IdleReq]
                    /\ UNCHANGED status
               ELSE /\ status' = "generating"
                    /\ req' = [req EXCEPT ![r].pc = "fetch", ![r].img = NoImage,
                                         ![r].force = FALSE]
                    /\ UNCHANGED <<isProcessingRef, abortControllerRef>>
    /\ UNCHANGED <<view, unitVars, canvasVars, pendingImageIds, errorMessage, isVoiceSessionActive,
                   assistanceMode, isUpdatingImageRef, timerVars, voiceVars, nextShape,
                   toolVars>>
    /\ Settle(r)
    /\ UNCHANGED sessionVars

\* after await fetch('/api/generate-solution', { signal }): an aborted fetch rejects,
\* and a response that is not ok throws; once the response is in, the mode that
\* was sent is read again only as isFeedbackMode
AfterFetch(r) ==
    /\ req[r].pc = "fetch"
    /\ \E outcome \in {"ok", "http_error", "network_error"} :
        /\ outcome # "ok" /\ ~req[r].aborted => errorTimers < MaxTimers
        /\ IF outcome = "ok" /\ ~req[r].aborted
           THEN /\ req' = [req EXCEPT ![r].pc = "json", ![r].mode = ""]
                /\ UNCHANGED <<status, errorMessage, errorTimers, isProcessingRef,
                               abortControllerRef>>
           ELSE /\ CatchBlock(r)
                /\ Finally(r)
                /\ req' = [req EXCEPT ![r] = IdleReq]
    /\ UNCHANGED <<view, unitVars, canvasVars, pendingImageIds, isVoiceSessionActive, assistanceMode,
                   lastCanvasImageRef, isUpdatingImageRef, flagTimers, pendingNotify,
                   timeoutRef, successTimers, voiceVars, nextShape, toolVars>>
    /\ Settle(r)
    /\ UNCHANGED sessionVars

Decoding == {q \in Slots : req[q].pc = "decode"}

\* what solutionResponse.json() gives: a body with an imageUrl, a body whose
\* imageUrl is null (route.ts, text-only answer), or a rejection
Bodies == {"image", "null", "malformed"}

\* faulty variant: a missing imageUrl is not checked
AbortedOnly(body, aborted) == aborted

\* if (!imageUrl || signal.aborted)
NoImageUrl(body, aborted) == body = "null" \/ aborted

\* after await solutionResponse.json(): if (!imageUrl || signal.aborted) the
\* request stops in idle; a body that does not parse throws
AfterJson(r, body) ==
    /\ req[r].pc = "json"
    /\ body = "malformed" /\ ~req[r].aborted => errorTimers < MaxTimers
    /\ body = "image" /\ ~req[r].aborted =>
            nextShape + Cardinality(Decoding) <= MaxShapes
    /\ IF body = "malformed"
       THEN /\ CatchBlock(r)
            /\ Finally(r)
            /\ req' = [req EXCEPT ![r] = IdleReq]
       ELSE IF NoImageUrl(body, req[r].aborted)
       THEN /\ status' = "idle"
            /\ Finally(r)
            /\ req' = [req EXCEPT ![r] = IdleReq]
            /\ UNCHANGED <<errorMessage, errorTimers>>
       ELSE /\ req' = [req EXCEPT ![r].pc = "decode"]
            /\ UNCHANGED <<status, errorMessage, errorTimers, isProcessingRef,
                           abortControllerRef>>
    /\ UNCHANGED <<view, unitVars, canvasVars, pendingImageIds, isVoiceSessionActive, assistanceMode,
                   lastCanvasImageRef, isUpdatingImageRef, flagTimers, pendingNotify,
                   timeoutRef, successTimers, voiceVars, nextShape, toolVars>>
    /\ Settle(r)
    /\ UNCHANGED sessionVars

\* faulty variant: the abort check after the decode is left out
DecodedOnly(r, loaded) == loaded

\* if (signal.aborted) return, after the image has decoded
DecodedAndLive(r, loaded) == loaded /\ ~req[r].aborted

\* opacity: isFeedbackMode ? 1.0 : 0.3
ShapeOpacity(feedback) == IF feedback THEN OpacityFull ELSE OpacityPending

\* faulty variant: every created shape is put on the pending list
IsReviewableAlways(feedback) == TRUE

\* only add to the pending list if not in feedback mode
IsReviewable(feedback) == ~feedback

\* createAssets, createShape, setPendingImageIds and the status shown; the
\* shape is placed in the viewportBounds read at the start of the request; the
\* board view sets the suppression flag first and clears it 100 ms later
Materialize(r) ==
    /\ assets' = assets \cup {nextShape}
    /\ shapes' = CreateShape(shapes, nextShape, ShapeOpacity(req[r].isFeedbackMode), TRUE,
                           req[r].vp)
    /\ nextShape' = nextShape + 1
    /\ pendingNotify' = TRUE
    /\ IF IsReviewable(req[r].isFeedbackMode)
       THEN /\ pendingImageIds' = Append(pendingImageIds, nextShape)
            /\ ResetTimer
       ELSE UNCHANGED <<pendingImageIds, timeoutRef>>
    /\ IF view = "board"
       THEN /\ isUpdatingImageRef' = TRUE
            /\ flagTimers' = Append(flagTimers, FALSE)
            /\ status' = "success"
            /\ successTimers' = successTimers + 1
       ELSE /\ status' = "idle"
            /\ UNCHANGED <<isUpdatingImageRef, flagTimers, successTimers>>

\* after await of the image's load/error callback
AfterDecode(r) ==
    /\ req[r].pc = "decode"
    /\ req' = [req EXCEPT ![r] = IdleReq]
    /\ Finally(r)
    /\ \E loaded \in BOOLEAN :
        /\ ~loaded /\ ~req[r].aborted => errorTimers < MaxTimers
        /\ loaded /\ ~req[r].aborted /\ view = "board" => successTimers < MaxTimers
        /\ IF DecodedAndLive(r, loaded)
           THEN /\ Materialize(r)
                /\ UNCHANGED <<errorMessage, errorTimers>>
           ELSE /\ IF loaded
                   THEN UNCHANGED <<status, errorMessage, errorTimers>>
                   ELSE CatchBlock(r)
                /\ UNCHANGED <<shapes, assets, pendingImageIds, isUpdatingImageRef,
                               flagTimers, pendingNotify, timeoutRef,
                               successTimers, nextShape>>
    /\ UNCHANGED <<view, unitVars, viewport, isVoiceSessionActive, assistanceMode,
                   lastCanvasImageRef, voiceVars, toolVars>>
    /\ Settle(r)
    /\ UNCHANGED sessionVars

\* ------------------------------------------------------- pending artifacts
\* ImageActionButtons: the buttons act on the most recent pending image
CurrentImageId == pendingImageIds[Len(pendingImageIds)]

\* faulty variant: the shape is not locked again
AcceptShapeUnlocked(sh, id) == UpdateShape(sh, id, 0, OpacityFull)

\* the shape writes of handleAccept: unlock with full opacity, then (board view)
\* lock again
AcceptShape(sh, id) ==
    IF view = "board"
    THEN UpdateShape(UpdateShape(sh, id, 0, OpacityFull), id, 1, -1)
    ELSE UpdateShape(sh, id, 0, OpacityFull)

\* faulty variant: the shape is deleted without being unlocked first
RejectShapeLocked(sh, id) == DeleteShape(sh, id)

\* the shape writes of handleReject: unlock, then delete
RejectShape(sh, id) == DeleteShape(UpdateShape(sh, id, 0, -1), id)

\* setPendingImageIds((prev) => prev.filter((id) => id !== shapeId))
RemovePending(pend, id) == FilterOut(pend, id)

\* flag set before the writes, cleared by a 100 ms timer; the changed pending
\* list gives a new callback, so the debouncer's effect runs again
SelfWrite(id) ==
    /\ isUpdatingImageRef' = TRUE
    /\ flagTimers' = Append(flagTimers, FALSE)
    /\ pendingNotify' = TRUE
    /\ pendingImageIds' = RemovePending(pendingImageIds, id)
    /\ ResetTimer
    /\ UNCHANGED <<view, unitVars, assets, viewport, status, errorMessage, isVoiceSessionActive,
                   assistanceMode, isProcessingRef, abortControllerRef,
                   lastCanvasImageRef, successTimers, errorTimers, voiceVars, reqVars,
                   toolVars>>
    /\ UNCHANGED <<sessionVars, callVars>>

\* handleAccept(shapeId)
Accept(id) ==
    /\ shapes' = AcceptShape(shapes, id)
    /\ SelfWrite(id)

\* handleReject(shapeId)
Reject(id) ==
    /\ shapes' = RejectShape(shapes, id)
    /\ SelfWrite(id)

\* the accept button of ImageActionButtons
ClickAccept ==
    /\ pendingImageIds # <<>>
    /\ Accept(CurrentImageId)

\* the reject button of ImageActionButtons
ClickReject ==
    /\ pendingImageIds # <<>>
    /\ Reject(CurrentImageId)

\* handleAccept or handleReject whose first editor.updateShape throws: the flag
\* has been set, nothing is written, and the exception leaves the handler
\* before setPendingImageIds and before the timer that clears the flag
ReviewWriteThrows ==
    /\ pendingImageIds # <<>>
    /\ isUpdatingImageRef' = TRUE
    /\ UNCHANGED <<view, unitVars, shapes, assets, viewport, uiVars, isProcessingRef,
                   abortControllerRef, lastCanvasImageRef, timerVars, voiceVars, reqVars,
                   toolVars, sessionVars, callVars>>

\* the board view's materialization whose editor.createAssets throws: the flag
\* has been set, nothing is written, the catch block shows the error and the
\* timer that clears the flag is never scheduled
MaterializeThrows(r) ==
    /\ view = "board"
    /\ req[r].pc = "decode"
    /\ ~req[r].aborted
    /\ errorTimers < MaxTimers
    /\ isUpdatingImageRef' = TRUE
    /\ CatchBlock(r)
    /\ Finally(r)
    /\ req' = [req EXCEPT ![r] = IdleReq]
    /\ UNCHANGED <<view, unitVars, canvasVars, pendingImageIds, isVoiceSessionActive,
                   assistanceMode, lastCanvasImageRef, flagTimers, pendingNotify,
                   timeoutRef, successTimers, voiceVars, nextShape, toolVars>>
    /\ Settle(r)
    /\ UNCHANGED sessionVars

\* ------------------------------------------------------------ user and timers
\* ids of the user's own shapes (the pipeline's shapes are numbered from 1)
UserIds == {-i : i \in 1..MaxUser}

\* the user draws or erases a shape; the store then calls its listeners
UserMutation ==
    /\ view \in Views
    /\ \E i \in UserIds :
        shapes' = IF i \in DOMAIN shapes
                  THEN DeleteShape(shapes, i)
                  ELSE CreateShape(shapes, i, OpacityFull, FALSE, 0)
    /\ StoreListeners
    /\ UNCHANGED <<view, debouncer, fit, stages, assets, viewport, pendingImageIds, errorMessage,
                   isVoiceSessionActive, assistanceMode, lastCanvasImageRef,
                   isUpdatingImageRef, successTimers, errorTimers, voiceVars, nextShape,
                   toolVars>>
    /\ UNCHANGED <<sessionVars, callVars>>

\* pan or zoom: the viewport moves, the document does not change
Pan ==
    /\ \E v \in 1..MaxViewport : v # viewport /\ viewport' = v
    /\ UNCHANGED <<view, unitVars, shapes, assets, uiVars, refVars, timerVars, voiceVars, reqVars,
                   toolVars>>
    /\ UNCHANGED <<sessionVars, callVars>>

\* the store delivers a write made by the pipeline itself (next frame)
Notify ==
    /\ pendingNotify
    /\ StoreListeners
    /\ UNCHANGED <<view, debouncer, fit, stages, canvasVars, pendingImageIds, errorMessage,
                   isVoiceSessionActive,
                   assistanceMode, lastCanvasImageRef, isUpdatingImageRef, successTimers,
                   errorTimers, voiceVars, nextShape, toolVars>>
    /\ UNCHANGED <<sessionVars, callVars>>

\* setTimeout(() => { isUpdatingImageRef.current = false }, 100); the write that
\* set the flag reaches the listeners (one frame) before its timer elapses
FlagTimerFire ==
    /\ flagTimers # <<>>
    /\ Head(flagTimers)
    /\ flagTimers' = Tail(flagTimers)
    /\ isUpdatingImageRef' = FALSE
    /\ UNCHANGED <<view, unitVars, canvasVars, uiVars, isProcessingRef, abortControllerRef,
                   lastCanvasImageRef, pendingNotify, timeoutRef, successTimers,
                   errorTimers, voiceVars, reqVars, toolVars>>
    /\ UNCHANGED <<sessionVars, callVars>>

\* setTimeout(() => { setStatus("idle"); setStatusMessage("") }, 2000)
SuccessTimerFire ==
    /\ successTimers > 0
    /\ successTimers' = successTimers - 1
    /\ status' = "idle"
    /\ UNCHANGED <<view, unitVars, canvasVars, pendingImageIds, errorMessage, isVoiceSessionActive,
                   assistanceMode, refVars, flagTimers, pendingNotify, timeoutRef, errorTimers, voiceVars, reqVars, toolVars>>
    /\ UNCHANGED <<sessionVars, callVars>>

\* setTimeout(() => { setStatus("idle"); setErrorMessage("") }, 3000)
ErrorTimerFire ==
    /\ errorTimers > 0
    /\ errorTimers' = errorTimers - 1
    /\ status' = "idle"
    /\ errorMessage' = ""
    /\ UNCHANGED <<view, unitVars, canvasVars, pendingImageIds, isVoiceSessionActive,
                   assistanceMode, refVars, flagTimers, pendingNotify, timeoutRef, successTimers, voiceVars, reqVars, toolVars>>
    /\ UNCHANGED <<sessionVars, callVars>>

\* the assistance-mode tabs, shown while no voice session is active
SetAssistanceMode(m) ==
    /\ view = "board"
    /\ ~isVoiceSessionActive
    /\ m # assistanceMode
    /\ assistanceMode' = m
    /\ ResetTimer
    /\ UNCHANGED <<view, unitVars, canvasVars, pendingImageIds, status, errorMessage,
                   isVoiceSessionActive, refVars, flagTimers, pendingNotify,
                   successTimers, errorTimers, voiceVars, reqVars, toolVars>>
    /\ UNCHANGED <<sessionVars, callVars>>

\* ------------------------------------------------------------ voice session
\* The session's objects and the refs that hold them: the data channel and the
\* peer connection with their states, the microphone tracks with their enabled
\* flag, and the audio element with the stream attached to it.  "none" is an
\* object never created.  starting is a second call of startSession waiting
\* for getUserMedia, orphan the connection and microphone stream of an earlier
\* call that no ref holds any more ("open": never closed or stopped).
NoRtc == [dc |-> "none", dcRef |-> FALSE, pc |-> "none", pcRef |-> FALSE,
          tracks |-> "none", enabled |-> FALSE, localStreamRef |-> FALSE,
          srcObject |-> FALSE, remoteAudioRef |-> FALSE,
          starting |-> FALSE, orphan |-> "none"]

\* setStatus("idle") in the board view, setStatus("Idle") on the voice page
IdleStatus == IF view = "voice" THEN "Idle" ELSE "idle"

\* handleClick -> startSession, up to its first await: the handlers wired to the
\* data channel keep the onSolveWithPrompt, and through it the generateSolution,
\* of this render
StartSession ==
    /\ view \in {"board", "voice"}
    /\ voice = "idle"
    /\ voice' = "connecting"
    /\ voicePending' = pendingImageIds
    /\ voiceStatus' = (IF view = "board" THEN "connecting" ELSE "Requesting token...")
    /\ UNCHANGED <<view, unitVars, canvasVars, uiVars, refVars, timerVars, reqVars, toolVars,
                   sessionVars, calls, outbox>>

\* voice page, after the token fetch: the peer connection and the audio element
TokenReceived ==
    /\ view = "voice"
    /\ voice = "connecting"
    /\ voice' = "media"
    /\ voiceStatus' = "Initializing WebRTC..."
    /\ rtc' = [rtc EXCEPT !.pc = "open", !.pcRef = TRUE,
                          !.srcObject = FALSE, !.remoteAudioRef = TRUE]
    /\ UNCHANGED <<view, unitVars, canvasVars, uiVars, refVars, timerVars, voicePending, reqVars,
                   toolVars, isMuted, calls, outbox>>

\* the objects startSession of the board view creates after getUserMedia, each
\* stored in its ref over what the ref held: a connection that was open and
\* tracks that were live are left as they are, held by nothing
NewSession(s) ==
    [dc |-> "connecting", dcRef |-> TRUE, pc |-> "open", pcRef |-> TRUE,
     tracks |-> "live", enabled |-> TRUE, localStreamRef |-> TRUE,
     srcObject |-> FALSE, remoteAudioRef |-> TRUE,
     starting |-> s.starting,
     orphan |-> IF s.pc = "open" \/ s.tracks = "live" THEN "open" ELSE s.orphan]

\* handleClick while isSessionActive is still false and a start is under way:
\* startSession runs a second time, up to its await of getUserMedia
StartSessionAgain ==
    /\ view = "board"
    /\ voice \in {"connecting", "negotiating"}
    /\ ~rtc.starting
    /\ rtc' = [rtc EXCEPT !.starting = TRUE]
    /\ voiceStatus' = "connecting"
    /\ UNCHANGED <<view, unitVars, canvasVars, uiVars, refVars, timerVars, voiceVars, reqVars,
                   toolVars, isMuted, calls, outbox>>

\* the second call's getUserMedia resolves before the first call's data channel
\* has opened: it creates its own stream, connection and channel
MediaGrantedAgain ==
    /\ view = "board"
    /\ voice = "negotiating"
    /\ rtc.starting
    /\ rtc' = [NewSession(rtc) EXCEPT !.starting = FALSE]
    /\ UNCHANGED <<view, unitVars, canvasVars, uiVars, refVars, timerVars, voiceVars, reqVars,
                   toolVars, isMuted, callVars>>

\* after await getUserMedia: the board view creates every object of the session
\* here, the voice page adds the microphone track and the data channel
MediaGranted ==
    /\ voice = (IF view = "board" THEN "connecting" ELSE "media")
    /\ voice' = "negotiating"
    /\ rtc' = IF view = "board"
              THEN NewSession(rtc)
              ELSE [rtc EXCEPT !.tracks = "live", !.enabled = TRUE,
                               !.dc = "connecting", !.dcRef = TRUE]
    /\ UNCHANGED <<view, unitVars, canvasVars, uiVars, refVars, timerVars, voicePending, reqVars,
                   toolVars, isMuted, callVars>>

\* voice page, after await pc.setRemoteDescription: setIsSessionActive(true)
SessionStarted ==
    /\ view = "voice"
    /\ voice = "negotiating"
    /\ voice' = "open"
    /\ isVoiceSessionActive' = TRUE
    /\ voiceStatus' = "Connected"
    /\ UNCHANGED <<view, unitVars, canvasVars, pendingImageIds, status, errorMessage,
                   assistanceMode, refVars, timerVars, voicePending, reqVars, toolVars,
                   sessionVars, calls, outbox>>

\* dc.onopen: in the board view setIsSessionActive(true) and
\* onSessionChange(true); the voice page only sends its session.update
DataChannelOpen ==
    /\ rtc.dc = "connecting"
    /\ voice = (IF view = "board" THEN "negotiating" ELSE "open")
    /\ rtc' = [rtc EXCEPT !.dc = "open"]
    /\ IF view = "board"
       THEN /\ voice' = "open"
            /\ isVoiceSessionActive' = TRUE
            /\ voiceStatus' = "listening"
            /\ ResetTimer
       ELSE UNCHANGED <<voice, isVoiceSessionActive, voiceStatus, timeoutRef>>
    /\ UNCHANGED <<view, unitVars, canvasVars, pendingImageIds, status, errorMessage,
                   assistanceMode, refVars, flagTimers, pendingNotify, successTimers,
                   errorTimers, voicePending, reqVars, toolVars, isMuted, calls, outbox>>

\* pc.ontrack: the remote stream is attached to the audio element
RemoteTrack ==
    /\ voice \in {"negotiating", "open"}
    /\ rtc.pc = "open"
    /\ rtc.remoteAudioRef
    /\ ~rtc.srcObject
    /\ rtc' = [rtc EXCEPT !.srcObject = TRUE]
    /\ UNCHANGED <<view, unitVars, canvasVars, uiVars, refVars, timerVars, voiceVars, reqVars,
                   toolVars, isMuted, callVars>>

\* localStreamRef.current.getAudioTracks().forEach(track.enabled = on), if the
\* ref holds a stream
SetTracksEnabled(s, on) ==
    IF s.localStreamRef THEN [s EXCEPT !.enabled = on] ELSE s

\* handleToggleMute, shown while the session is active: next = !prev, and the
\* tracks are enabled if and only if next is false
ToggleMute ==
    /\ view = "board"
    /\ isVoiceSessionActive
    /\ isMuted' = ~isMuted
    /\ rtc' = SetTracksEnabled(rtc, isMuted)
    /\ UNCHANGED <<view, unitVars, canvasVars, uiVars, refVars, timerVars, voiceVars, reqVars,
                   toolVars, callVars>>

\* cleanupSession of the board view: close the channel and the connection, stop
\* the tracks, detach the audio, clear the four refs
CleanupSession(s) ==
    [dc |-> IF s.dcRef \/ s.pcRef THEN "closed" ELSE s.dc,
     dcRef |-> FALSE,
     pc |-> IF s.pcRef THEN "closed" ELSE s.pc,
     pcRef |-> FALSE,
     tracks |-> IF s.localStreamRef THEN "stopped" ELSE s.tracks,
     enabled |-> s.enabled,
     localStreamRef |-> FALSE,
     srcObject |-> IF s.remoteAudioRef THEN FALSE ELSE s.srcObject,
     remoteAudioRef |-> FALSE,
     starting |-> s.starting,
     orphan |-> s.orphan]

\* the cleanup of the voice page's stopSession: peerConnection.current.close()
\* (which closes the connection's data channel) and peerConnection.current = null
ClosePeerConnection(s) ==
    IF s.pcRef
    THEN [s EXCEPT !.pc = "closed", !.pcRef = FALSE,
                   !.dc = (IF s.dc = "none" THEN "none" ELSE "closed")]
    ELSE s

\* the handler body of stopSession; the call chains of the tool handler keep
\* the channel object they started with, now closed
StopSessionBody ==
    /\ rtc' = (IF view = "board" THEN CleanupSession(rtc) ELSE ClosePeerConnection(rtc))
    /\ calls' = [c \in CallIds |-> [calls[c] EXCEPT !.dcOpen = FALSE]]
    /\ voice' = "idle"
    /\ voicePending' = <<>>
    /\ isVoiceSessionActive' = FALSE
    /\ voiceStatus' = IdleStatus
    /\ isMuted' = FALSE
    /\ IF isVoiceSessionActive /\ view = "board"
       THEN ResetTimer
       ELSE UNCHANGED timeoutRef
    /\ UNCHANGED <<view, unitVars, canvasVars, pendingImageIds, status, errorMessage,
                   assistanceMode, refVars, flagTimers, pendingNotify, successTimers,
                   errorTimers, reqVars, toolVars, outbox>>

\* stopSession: explicit stop, failed start or lost connection
StopSession ==
    /\ voice # "idle"
    /\ StopSessionBody

\* the status the catch block of startSession sets for an error of the given
\* name, before it calls stopSession: the voice page tells NotAllowedError
\* apart, the board view calls setErrorStatus for every error
CatchStatus(errName) ==
    IF view = "voice"
    THEN (IF errName = "NotAllowedError" THEN "Permission Denied" ELSE "Error")
    ELSE "error"

\* await getUserMedia rejects with NotAllowedError: the catch block sets
\* CatchStatus("NotAllowedError") and then calls stopSession, whose setStatus
\* is the later one
MediaDenied ==
    /\ view \in {"board", "voice"}
    /\ voice = (IF view = "board" THEN "connecting" ELSE "media")
    /\ StopSessionBody

\* stopSession reached with the session already torn down (the start was
\* requested twice and both attempts failed)
StopSessionAgain ==
    /\ view \in {"board", "voice"}
    /\ voice = "idle"
    /\ StopSessionBody

\* draw_on_canvas: onSolveWithPrompt(mode) = generateSolution({ modeOverride,
\* force: true }) of the render in which the session was started
VoiceDraw(m) ==
    /\ voice = "open"
    /\ Live # Slots
    /\ StartRequest(FALSE, voicePending, m, TRUE)
    /\ UNCHANGED <<view, unitVars, canvasVars, uiVars, lastCanvasImageRef, isUpdatingImageRef,
                   timerVars, voiceVars, nextShape, toolVars>>
    /\ UNCHANGED <<sessionVars, callVars>>

\* ------------------------------------------------- voice tools, board view
ToolNames == {"analyze_workspace", "draw_on_canvas", "get_weather"}

\* the argument strings of a function_call item
ArgsJson == {"", "{", "{}", "{\"mode\":\"feedback\"}", "{\"mode\":\"answer\"}"}

\* argsJson ? JSON.parse(argsJson) : {}, as far as the handler reads the result:
\* whether it parsed, and its mode member
ParseArgs(argsJson) ==
    CASE argsJson = "{" -> [ok |-> FALSE, mode |-> "undefined"]
      [] argsJson = "{\"mode\":\"feedback\"}" -> [ok |-> TRUE, mode |-> "feedback"]
      [] argsJson = "{\"mode\":\"answer\"}" -> [ok |-> TRUE, mode |-> "answer"]
      [] OTHER -> [ok |-> TRUE, mode |-> "undefined"]

\* args.mode if it is one of the three modes, else "suggest"
DrawMode(args) ==
    IF args.mode \in {"feedback", "suggest", "answer"} THEN args.mode ELSE "suggest"

\* a call chain of the tool handler suspended at stage pc
Suspended(pc, slot) == [IdleCall EXCEPT !.pc = pc, !.slot = slot, !.dcOpen = TRUE]

\* analyze_workspace up to its first suspension: captureCanvasImage returns null
\* on an empty canvas, which throws into the catch block, else awaits toImage
AnalyzeWorkspace(c) ==
    /\ IF DOMAIN shapes = {}
       THEN FinishCall(c, TRUE, "error")
       ELSE /\ calls' = [calls EXCEPT ![c] = Suspended("toImage", 0)]
            /\ voiceStatus' = "listening"
            /\ UNCHANGED outbox
    /\ UNCHANGED <<isProcessingRef, abortControllerRef, req>>

\* draw_on_canvas up to its first suspension: await onSolveWithPrompt(mode),
\* which is generateSolution({ modeOverride, force: true }) of the render in
\* which the session was started; if that returns before its first await the
\* reply follows in the same task
DrawOnCanvas(c, mode) ==
    /\ StartRequest(FALSE, voicePending, mode, TRUE)
    /\ IF req' = req
       THEN FinishCall(c, TRUE, "success")
       ELSE /\ calls' = [calls EXCEPT ![c] = Suspended("solve", FreeSlot)]
            /\ voiceStatus' = "listening"
            /\ UNCHANGED outbox

\* handleServerEvent, response.done with one function_call item: the call to
\* handleFunctionCall, then setStatus("listening").  Arguments that do not parse
\* and a tool name that is neither of the two end the handler without a send.
HandleFunctionCall(c, name, argsJson) ==
    /\ view = "board"
    /\ rtc.dcRef
    /\ rtc.dc = "open"
    /\ calls[c].pc = "none"
    /\ name = "draw_on_canvas" => Live # Slots
    /\ LET args == ParseArgs(argsJson)
       IN  IF ~args.ok \/ name \notin {"analyze_workspace", "draw_on_canvas"}
           THEN /\ calls' = [calls EXCEPT ![c] = [IdleCall EXCEPT !.pc = "done",
                                                       !.reported = ~args.ok]]
                /\ voiceStatus' = "listening"
                /\ UNCHANGED <<outbox, isProcessingRef, abortControllerRef, req>>
           ELSE IF name = "analyze_workspace"
           THEN AnalyzeWorkspace(c)
           ELSE DrawOnCanvas(c, DrawMode(args))
    /\ UNCHANGED <<view, unitVars, canvasVars, uiVars, lastCanvasImageRef, isUpdatingImageRef,
                   timerVars, voiceVars, nextShape, toolVars, sessionVars>>

\* captureCanvasImage after await editor.toImage: no blob gives null, and the
\* handler throws "Canvas is empty or could not be captured"
CaptureToImage(c) ==
    /\ calls[c].pc = "toImage"
    /\ \E blob \in BOOLEAN :
        IF blob
        THEN /\ calls' = [calls EXCEPT ![c].pc = "reader"]
             /\ UNCHANGED <<outbox, voiceStatus>>
        ELSE FinishCall(c, calls[c].dcOpen, "error")
    /\ UNCHANGED <<view, unitVars, canvasVars, uiVars, refVars, timerVars, voiceVars, reqVars,
                   toolVars, sessionVars>>

\* after the FileReader: the analyze-workspace fetch is issued
CaptureReader(c) ==
    /\ calls[c].pc = "reader"
    /\ calls' = [calls EXCEPT ![c].pc = "fetch"]
    /\ UNCHANGED <<view, unitVars, canvasVars, uiVars, refVars, timerVars, voiceVars, reqVars,
                   toolVars, sessionVars, outbox, voiceStatus>>

\* after await fetch("/api/voice/analyze-workspace"): a rejection or a response
\* that is not ok goes to the catch block
AnalyzeFetch(c) ==
    /\ calls[c].pc = "fetch"
    /\ \E outcome \in {"ok", "http_error", "network_error"} :
        IF outcome = "ok"
        THEN /\ calls' = [calls EXCEPT ![c].pc = "json"]
             /\ UNCHANGED <<outbox, voiceStatus>>
        ELSE FinishCall(c, calls[c].dcOpen, "error")
    /\ UNCHANGED <<view, unitVars, canvasVars, uiVars, refVars, timerVars, voiceVars, reqVars,
                   toolVars, sessionVars>>

\* after await res.json(): the analysis is sent; a body that does not parse
\* goes to the catch block
AnalyzeJson(c) ==
    /\ calls[c].pc = "json"
    /\ \E parsed \in BOOLEAN :
        FinishCall(c, calls[c].dcOpen, IF parsed THEN "analysis" ELSE "error")
    /\ UNCHANGED <<view, unitVars, canvasVars, uiVars, refVars, timerVars, voiceVars, reqVars,
                   toolVars, sessionVars>>

\* the continuations of the suspended tool calls
ToolPipeline ==
    \/ \E c \in CallIds : CaptureToImage(c)
    \/ \E c \in CallIds : CaptureReader(c)
    \/ \E c \in CallIds : AnalyzeFetch(c)
    \/ \E c \in CallIds : AnalyzeJson(c)

\* ------------------------------------------- voice page: tool-call arguments
\* A string is a sequence of characters; Undefined is a field that is absent or
\* not a string.
Undefined == <<"undefined">>
Alphabet == {"{", "}"}
Strings == {<<>>} \cup {<<ch>> : ch \in Alphabet}    \* the fragments sent
DoneIds == {dispatched[i].call_id : i \in 1..Len(dispatched)}
PageToolNames == {"get_weather", "draw_on_canvas"}

\* JSON.parse(argsString) returns: of the strings over the alphabet only "{}"
\* is a JSON text
JsonParses(argsString) == argsString = <<"{", "}">>

\* faulty variant: the catch block writes nothing
ToolCallFailsSilently(name, argsString) == FALSE

\* handleToolCall's catch block is entered: JSON.parse throws on the arguments
\* of a get_weather call
ToolCallFails(name, argsString) ==
    name = "get_weather" /\ argsString # <<>> /\ ~JsonParses(argsString)

\* handleToolCall: get_weather with arguments that are empty or parse sends the
\* result and response.create if the data channel is open; a parse failure is
\* logged, any other tool is ignored
HandleToolCall(box, callId, name, argsString) ==
    IF /\ name = "get_weather"
       /\ argsString = <<>> \/ JsonParses(argsString)
       /\ rtc.dcRef /\ rtc.dc = "open"
    THEN box \o Reply(callId, "result")
    ELSE box

\* faulty variant: the fragment replaces what was accumulated
Overwrite(acc, callId, chunk) == chunk

\* (pendingToolArgs.current[callId] || "") + chunk
Accumulate(acc, callId, chunk) ==
    (IF callId \in DOMAIN acc THEN acc[callId] ELSE <<>>) \o chunk

\* pendingToolArgs.current[callId] ?? (typeof event.arguments === "string" ?
\* event.arguments : "")
FullArgs(acc, callId, arguments) ==
    IF callId \in DOMAIN acc THEN acc[callId]
    ELSE IF arguments # Undefined THEN arguments
    ELSE <<>>

\* response.function_call_arguments.delta
ArgumentsDelta(callId, chunk) ==
    /\ rtc.dc = "open"
    /\ Len(eventLog) < MaxEvents
    /\ callId \notin DoneIds
    /\ eventLog' = Append(eventLog, [type |-> "delta", call_id |-> callId,
                                     arguments |-> chunk])
    /\ IF chunk = Undefined
       THEN UNCHANGED pendingToolArgs
       ELSE pendingToolArgs' =
                [c \in DOMAIN pendingToolArgs \cup {callId} |->
                    IF c = callId THEN Accumulate(pendingToolArgs, callId, chunk)
                    ELSE pendingToolArgs[c]]
    /\ UNCHANGED <<view, unitVars, canvasVars, uiVars, refVars, timerVars, voiceVars, reqVars,
                   dispatched>>
    /\ UNCHANGED <<sessionVars, callVars>>

\* response.function_call_arguments.done for a call of the tool name: delete
\* the entry, call handleToolCall
ArgumentsDoneFor(callId, name, arguments) ==
    /\ rtc.dc = "open"
    /\ Len(eventLog) < MaxEvents
    /\ callId \notin DoneIds
    /\ eventLog' = Append(eventLog, [type |-> "done", call_id |-> callId,
                                     arguments |-> arguments])
    /\ dispatched' = Append(dispatched,
            [call_id |-> callId,
             arguments |-> FullArgs(pendingToolArgs, callId, arguments)])
    /\ pendingToolArgs' = [c \in DOMAIN pendingToolArgs \ {callId} |->
                              pendingToolArgs[c]]
    /\ outbox' = HandleToolCall(outbox, callId, name,
                                FullArgs(pendingToolArgs, callId, arguments))
    /\ calls' = [calls EXCEPT ![callId].reported =
                    ToolCallFails(name, FullArgs(pendingToolArgs, callId, arguments))]
    /\ UNCHANGED <<view, unitVars, canvasVars, uiVars, refVars, timerVars, voiceVars, reqVars,
                   sessionVars, voiceStatus>>

\* response.function_call_arguments.done
ArgumentsDone(callId, arguments) ==
    \E name \in PageToolNames : ArgumentsDoneFor(callId, name, arguments)

\* response.text.delta, error and any other event: nothing is accumulated
OtherEvent ==
    /\ rtc.dc = "open"
    /\ Len(eventLog) < MaxEvents
    /\ eventLog' = Append(eventLog, [type |-> "other", call_id |-> "",
                                     arguments |-> Undefined])
    /\ UNCHANGED <<view, unitVars, canvasVars, uiVars, refVars, timerVars, voiceVars, reqVars,
                   pendingToolArgs, dispatched>>
    /\ UNCHANGED <<sessionVars, callVars>>

\* ------------------------------------------------ useDebounceActivity alone
\* The hook with the browser's timer table: timeoutRef is the handle held in
\* timeoutRef.current (0 is null), timeouts the handles of the timers that have
\* been set and have neither elapsed nor been cleared, calls the number of
\* times the quiet callback has run.  The canvas specifications keep of this
\* only whether a countdown is live.
NoDebouncer == [mounted |-> FALSE, timeoutRef |-> 0, timeouts |-> {}, nextId |-> 1,
                calls |-> 0]

\* faulty variant: the prior timer is left running
ClearTimerSkipped(d) == d

\* clearTimer(): clearTimeout(timeoutRef.current); timeoutRef.current = null
ClearTimer(d) ==
    IF d.timeoutRef # 0
    THEN [d EXCEPT !.timeouts = @ \ {d.timeoutRef}, !.timeoutRef = 0]
    ELSE d

\* resetTimer(): clearTimer(); timeoutRef.current = setTimeout(callback, delay)
SetTimer(d) ==
    LET c == ClearTimer(d)
    IN  [c EXCEPT !.timeoutRef = c.nextId, !.timeouts = @ \cup {c.nextId},
                  !.nextId = @ + 1]

\* faulty variant: the suppression flag is not consulted
ShouldIgnoreNever(flag) == FALSE

\* if (shouldIgnoreRef?.current) return
ShouldIgnore(flag) == flag

\* what no action of the hook touches
HookFrame ==
    UNCHANGED <<view, canvasVars, uiVars, isProcessingRef, abortControllerRef,
                lastCanvasImageRef, timerVars, voiceVars, reqVars, toolVars,
                sessionVars, callVars, fit, stages, autosave>>

\* the effect runs for the first time: store.listen, then resetTimer()
HookMount ==
    /\ ~debouncer.mounted
    /\ debouncer.nextId <= MaxTimeouts
    /\ debouncer' = [SetTimer(debouncer) EXCEPT !.mounted = TRUE]
    /\ UNCHANGED isUpdatingImageRef
    /\ HookFrame

\* handleHistoryChange, called by the store for a user change of the document
HookHistoryChange ==
    /\ debouncer.mounted
    /\ debouncer.nextId <= MaxTimeouts
    /\ debouncer' = (IF ShouldIgnore(isUpdatingImageRef)
                     THEN debouncer
                     ELSE SetTimer(debouncer))
    /\ UNCHANGED isUpdatingImageRef
    /\ HookFrame

\* a timer elapses: callback(); the handle stays in timeoutRef.current
HookTimeout ==
    /\ \E t \in debouncer.timeouts :
        debouncer' = [debouncer EXCEPT !.timeouts = @ \ {t}, !.calls = @ + 1]
    /\ UNCHANGED isUpdatingImageRef
    /\ HookFrame

\* a dependency of the effect changes (a new callback): the cleanup runs, then
\* the effect again
HookEffectAgain ==
    /\ debouncer.mounted
    /\ debouncer.nextId <= MaxTimeouts
    /\ debouncer' = SetTimer(ClearTimer(debouncer))
    /\ UNCHANGED isUpdatingImageRef
    /\ HookFrame

\* the view goes away: the cleanup clears the timer and removes the listener
HookUnmount ==
    /\ debouncer.mounted
    /\ debouncer' = [ClearTimer(debouncer) EXCEPT !.mounted = FALSE]
    /\ UNCHANGED isUpdatingImageRef
    /\ HookFrame

\* the page sets the suppression flag, or its 100 ms timer clears it
HookFlag ==
    /\ isUpdatingImageRef' = ~isUpdatingImageRef
    /\ UNCHANGED debouncer
    /\ HookFrame

\* ------------------------------------------------------------- scale to fit
\* Exact arithmetic on fractions n/d in lowest terms (d > 0) stands for the
\* floating-point arithmetic of the code.
RECURSIVE GCD(_, _)
GCD(a, b) == IF b = 0 THEN a ELSE GCD(b, a % b)

Frac(n, d) ==
    LET g == GCD(IF n < 0 THEN -n ELSE n, d)
    IN  [n |-> n \div g, d |-> d \div g]

Whole(k) == [n |-> k, d |-> 1]
Times(a, b) == Frac(a.n * b.n, a.d * b.d)
Plus(a, b) == Frac(a.n * b.d + b.n * a.d, a.d * b.d)
Minus(a, b) == Frac(a.n * b.d - b.n * a.d, a.d * b.d)
Half(a) == Frac(a.n, 2 * a.d)
LessEq(a, b) == a.n * b.d <= b.n * a.d

\* faulty variant: the larger ratio is taken, so the image covers the viewport
ScaleToCover(vb, img) ==
    LET sw == Frac(vb.w, img.w)
        sh == Frac(vb.h, img.h)
    IN  IF LessEq(sw, sh) THEN sh ELSE sw

\* Math.min(viewportBounds.width / img.width, viewportBounds.height / img.height)
Scale(vb, img) ==
    LET sw == Frac(vb.w, img.w)
        sh == Frac(vb.h, img.h)
    IN  IF LessEq(sw, sh) THEN sw ELSE sh

\* the x, y and props.w, props.h given to editor.createShape
PlaceImage(vb, img) ==
    LET scale == Scale(vb, img)
        shapeWidth == Times(Whole(img.w), scale)
        shapeHeight == Times(Whole(img.h), scale)
    IN  [x |-> Plus(Whole(vb.x), Half(Minus(Whole(vb.w), shapeWidth))),
         y |-> Plus(Whole(vb.y), Half(Minus(Whole(vb.h), shapeHeight))),
         w |-> shapeWidth,
         h |-> shapeHeight]

\* the sides and corners the viewports and the decoded images are drawn from
Dims == {200 * k : k \in 1..MaxDim}
Origins == {-300, 0, 50}
NoShape == [x |-> Whole(0), y |-> Whole(0), w |-> Whole(0), h |-> Whole(0)]
NoFit == [vb |-> [x |-> 0, y |-> 0, w |-> 0, h |-> 0], img |-> [w |-> 0, h |-> 0],
          shape |-> NoShape]

\* the image has decoded: the shape is sized and placed
Place ==
    /\ fit.shape = NoShape
    /\ fit' = [fit EXCEPT !.shape = PlaceImage(fit.vb, fit.img)]
    /\ UNCHANGED <<view, canvasVars, uiVars, refVars, timerVars, voiceVars, reqVars,
                   toolVars, sessionVars, callVars, debouncer, stages,
                   autosave>>

\* -------------------------------------- multi-stage variant (OCR, need-check)
\* handleAutoGeneration with three services, in its two versions: "rate" allows
\* one check per minute, "fingerprint" compares the capture with the stored
\* one.  One call chain at a time: a trigger is taken when the previous chain
\* has returned.  log lists the calls of the current chain as they are issued
\* and as their responses arrive.
StageVariants == {"rate", "fingerprint"}
NoStages == [variant |-> "none", pc |-> "none", aborted |-> FALSE, controller |-> FALSE,
             isProcessingRef |-> FALSE, status |-> "idle", errorMessage |-> "",
             errorTimer |-> FALSE, log |-> <<>>, runs |-> 0, created |-> 0]

\* the order of one request's calls
StageOrder == <<"ocr", "ocr_done", "check", "check_done", "generate", "generate_done">>

\* finally { isProcessingRef.current = false; abortControllerRef.current = null }
StageFinally(s) ==
    [s EXCEPT !.pc = "none", !.aborted = FALSE, !.isProcessingRef = FALSE,
              !.controller = FALSE]

\* catch (error): idle for a cancelled request, else the error and its 3 s reset
StageCatch(s) ==
    IF s.aborted
    THEN StageFinally([s EXCEPT !.status = "idle"])
    ELSE StageFinally([s EXCEPT !.status = "error", !.errorMessage = "error",
                                !.errorTimer = TRUE])

\* a call is issued: setStatus, then fetch(url, { signal })
StageIssue(s, call, shown) ==
    [s EXCEPT !.pc = call, !.status = shown, !.log = Append(@, call)]

\* if (signal.aborted) return
StageUnlessAborted(s, next) == IF s.aborted THEN StageFinally(s) ELSE next

\* !response.ok || signal.aborted, and a fetch that rejects (network failure or
\* abort)
ResponseFailed(s, outcome) == outcome # "ok" \/ s.aborted

\* faulty variant: the generate call is issued whatever the need-check says
HelpNotNeededIgnored(needsHelp) == FALSE

\* if (!checkData.needsHelp)
HelpNotNeeded(needsHelp) == ~needsHelp

StageFrame ==
    UNCHANGED <<view, canvasVars, uiVars, refVars, timerVars, voiceVars, reqVars, toolVars,
                sessionVars, callVars, debouncer, fit, autosave>>

\* the debouncer's callback, up to await editor.toImage; the rate limit is an
\* early return before any state is touched
AutoTrigger ==
    /\ stages.pc = "none"
    /\ ~stages.isProcessingRef
    /\ stages.runs < MaxRuns
    /\ \E tooSoon \in BOOLEAN, empty \in BOOLEAN :
        stages' = IF (stages.variant = "rate" /\ tooSoon /\ stages.runs > 0) \/ empty
                  THEN stages
                  ELSE [stages EXCEPT !.pc = "toImage", !.isProcessingRef = TRUE,
                                      !.controller = TRUE, !.log = <<>>,
                                      !.runs = @ + 1]
    /\ StageFrame

\* handleUserActivity (pointerdown, keydown): abort the request in flight
HandleUserActivity ==
    /\ stages.controller
    /\ stages' = [stages EXCEPT !.aborted = TRUE, !.controller = FALSE,
                                !.status = "idle", !.isProcessingRef = FALSE]
    /\ StageFrame

\* if (!blob || signal.aborted) return
StageToImage ==
    /\ stages.pc = "toImage"
    /\ \E blob \in BOOLEAN :
        stages' = IF ~blob \/ stages.aborted
                  THEN StageFinally(stages)
                  ELSE [stages EXCEPT !.pc = "reader"]
    /\ StageFrame

\* after the FileReader: the fingerprint version returns in idle on an unchanged
\* capture; then the abort check, then the OCR call
StageReader ==
    /\ stages.pc = "reader"
    /\ \E same \in BOOLEAN :
        stages' = IF stages.variant = "fingerprint" /\ same
                  THEN StageFinally([stages EXCEPT !.status = "idle"])
                  ELSE StageUnlessAborted(stages, StageIssue(stages, "ocr", "analyzing"))
    /\ StageFrame

\* after await fetch('/api/ocr'), after await fetch('/api/check-help-needed')
\* and after await fetch('/api/generate-solution'): a failed response throws,
\* else response.json() is awaited
StageResponse(outcome) ==
    /\ stages.pc \in {"ocr", "check", "generate"}
    /\ stages' = IF ResponseFailed(stages, outcome)
                  THEN StageCatch(stages)
                  ELSE [stages EXCEPT !.pc = IF stages.pc = "ocr" THEN "ocr_done"
                                              ELSE IF stages.pc = "check" THEN "check_done"
                                              ELSE "generate_done",
                                      !.log = Append(@, IF stages.pc = "ocr" THEN "ocr_done"
                                                        ELSE IF stages.pc = "check"
                                                        THEN "check_done"
                                                        ELSE "generate_done")]
    /\ StageFrame

\* after await ocrResponse.json(): the abort check, then the need-check call
OcrData ==
    /\ stages.pc = "ocr_done"
    /\ \E parsed \in BOOLEAN :
        stages' = IF ~parsed
                  THEN StageCatch(stages)
                  ELSE StageUnlessAborted(stages, StageIssue(stages, "check", "checking"))
    /\ StageFrame

\* after await checkResponse.json(): the abort check; without a need for help
\* the request returns in idle, else the generate call is issued
CheckData(parsed, needsHelp) ==
    /\ stages.pc = "check_done"
    /\ stages' = IF ~parsed
                  THEN StageCatch(stages)
                  ELSE StageUnlessAborted(stages,
                        IF HelpNotNeeded(needsHelp)
                        THEN StageFinally([stages EXCEPT !.status = "idle"])
                        ELSE StageIssue(stages, "generate", "generating"))
    /\ StageFrame

\* after await solutionResponse.json(): without an image the rate-limited
\* version throws, the fingerprint version returns in idle
SolutionData ==
    /\ stages.pc = "generate_done"
    /\ \E body \in Bodies :
        stages' = IF body = "malformed"
                  THEN StageCatch(stages)
                  ELSE IF body = "null" \/ stages.aborted
                  THEN (IF stages.variant = "rate"
                        THEN StageCatch(stages)
                        ELSE StageFinally([stages EXCEPT !.status = "idle"]))
                  ELSE [stages EXCEPT !.pc = "decode"]
    /\ StageFrame

\* after the image has loaded or failed to: the abort check, then the asset
\* and the shape are created and the status is idle
ImageLoaded ==
    /\ stages.pc = "decode"
    /\ \E loaded \in BOOLEAN :
        stages' = IF ~loaded
                  THEN StageCatch(stages)
                  ELSE StageUnlessAborted(stages,
                        StageFinally([stages EXCEPT !.status = "idle",
                                                    !.created = @ + 1]))
    /\ StageFrame

\* setTimeout(() => { setStatus("idle"); setErrorMessage("") }, 3000)
StageErrorTimer ==
    /\ stages.errorTimer
    /\ stages' = [stages EXCEPT !.errorTimer = FALSE, !.status = "idle",
                                !.errorMessage = ""]
    /\ StageFrame

\* ------------------------------------------------------------ specification
InitTool ==
    /\ pendingToolArgs = <<>>
    /\ eventLog = <<>>
    /\ dispatched = <<>>

InitAgent ==
    /\ rtc = NoRtc
    /\ isMuted = FALSE
    /\ voiceStatus = IdleStatus
    /\ calls = [c \in CallIds |-> IdleCall]
    /\ outbox = <<>>

InitUnits ==
    /\ debouncer = NoDebouncer
    /\ fit = NoFit
    /\ stages = NoStages
    /\ autosave = NoAutosave

InitCanvas ==
    /\ shapes = <<>>
    /\ assets = {}
    /\ viewport = 1
    /\ pendingImageIds = <<>>
    /\ status = "idle"
    /\ errorMessage = ""
    /\ isVoiceSessionActive = FALSE
    /\ assistanceMode = "off"
    /\ isProcessingRef = FALSE
    /\ abortControllerRef = NoReq
    /\ lastCanvasImageRef = NoImage
    /\ isUpdatingImageRef = FALSE
    /\ flagTimers = <<>>
    /\ pendingNotify = FALSE
    /\ timeoutRef = TRUE
    /\ successTimers = 0
    /\ errorTimers = 0
    /\ voice = "idle"
    /\ voicePending = <<>>
    /\ req = [r \in Slots |-> IdleReq]
    /\ nextShape = 1

Init ==
    /\ view \in Views
    /\ InitCanvas
    /\ InitTool
    /\ InitAgent
    /\ InitUnits

\* the continuations of the suspended call chains
Pipeline ==
    \/ \E r \in Slots : AfterToImage(r)
    \/ \E r \in Slots : AfterReader(r)
    \/ \E r \in Slots : AfterFetch(r)
    \/ \E r \in Slots, body \in Bodies : AfterJson(r, body)
    \/ \E r \in Slots : AfterDecode(r)

\* Either canvas view, driven by the user's edits, the mode tabs, the debouncer,
\* the accept and reject buttons and the timers.
Next ==
    \/ UserMutation
    \/ \E m \in Modes : SetAssistanceMode(m)
    \/ DebounceFire
    \/ Pipeline
    \/ ClickAccept
    \/ ClickReject
    \/ Notify
    \/ FlagTimerFire
    \/ SuccessTimerFire
    \/ ErrorTimerFire

Spec == Init /\ [][Next]_vars

\* The board view with a voice session, the user and the tutor keeping to the
\* modes below.
VoiceModes == {"off", "suggest"}

InitVoice ==
    /\ view = "board"
    /\ InitCanvas
    /\ InitTool
    /\ InitAgent
    /\ InitUnits

NextVoice ==
    \/ UserMutation
    \/ \E m \in VoiceModes : SetAssistanceMode(m)
    \/ DebounceFire
    \/ StartSession
    \/ MediaGranted
    \/ DataChannelOpen
    \/ StopSession
    \/ \E m \in VoiceModes \ {"off"} : VoiceDraw(m)
    \/ Pipeline
    \/ Notify
    \/ FlagTimerFire
    \/ SuccessTimerFire
    \/ ErrorTimerFire

SpecVoice == InitVoice /\ [][NextVoice]_vars

\* The voice agent of the board view and of the voice page: the session is
\* started, fails or is stopped at any stage, and in the board view the tutor
\* calls the tools while the user edits the canvas.  The mode tabs stay at
\* "off", so every generation request comes from draw_on_canvas.
InitAgentPage ==
    /\ view \in {"board", "voice"}
    /\ InitCanvas
    /\ InitTool
    /\ InitAgent
    /\ InitUnits

NextAgent ==
    \/ UserMutation
    \/ StartSession
    \/ TokenReceived
    \/ MediaGranted
    \/ SessionStarted
    \/ DataChannelOpen
    \/ RemoteTrack
    \/ ToggleMute
    \/ StopSession
    \/ StopSessionAgain
    \/ MediaDenied
    \/ StartSessionAgain
    \/ MediaGrantedAgain
    \/ \E c \in CallIds, name \in ToolNames, argsJson \in ArgsJson :
            HandleFunctionCall(c, name, argsJson)
    \/ \E c \in CallIds, a \in Strings \cup {Undefined} :
            view = "voice" /\ ArgumentsDone(c, a)
    \/ ToolPipeline
    \/ Pipeline
    \/ Notify
    \/ FlagTimerFire
    \/ SuccessTimerFire
    \/ ErrorTimerFire

SpecAgent == InitAgentPage /\ [][NextAgent]_vars

\* The debouncer on its own in either canvas view: mounted, driven by store
\* events, dependency changes and the suppression flag, and unmounted.
InitDebounce ==
    /\ view \in Views
    /\ InitCanvas
    /\ InitTool
    /\ InitAgent
    /\ debouncer = NoDebouncer
    /\ fit = NoFit
    /\ stages = NoStages
    /\ autosave = NoAutosave

NextDebounce ==
    \/ HookMount
    \/ HookHistoryChange
    \/ HookTimeout
    \/ HookEffectAgain
    \/ HookUnmount
    \/ HookFlag

SpecDebounce == InitDebounce /\ [][NextDebounce]_vars

\* The multi-stage variant of the home view in both of its versions: triggers,
\* the user's activity and the outcomes of the three services.
InitStages ==
    /\ view = "home"
    /\ InitCanvas
    /\ InitTool
    /\ InitAgent
    /\ debouncer = NoDebouncer
    /\ fit = NoFit
    /\ autosave = NoAutosave
    /\ \E v \in StageVariants : stages = [NoStages EXCEPT !.variant = v]

NextStages ==
    \/ AutoTrigger
    \/ HandleUserActivity
    \/ StageToImage
    \/ StageReader
    \/ \E outcome \in {"ok", "http_error", "network_error"} : StageResponse(outcome)
    \/ OcrData
    \/ \E parsed \in BOOLEAN, needsHelp \in BOOLEAN : CheckData(parsed, needsHelp)
    \/ SolutionData
    \/ ImageLoaded
    \/ StageErrorTimer

SpecStages == InitStages /\ [][NextStages]_vars

\* A canvas view whose user also pans and zooms; the board view is used in
\* suggest mode.
InitPan == Init

NextPan ==
    \/ UserMutation
    \/ SetAssistanceMode("suggest")
    \/ DebounceFire
    \/ Pipeline
    \/ Pan
    \/ Notify
    \/ FlagTimerFire
    \/ SuccessTimerFire
    \/ ErrorTimerFire

SpecPan == InitPan /\ [][NextPan]_vars

\* The placement of one decoded image, for viewports and images of any of the
\* sizes drawn.
InitFit ==
    /\ view \in Views
    /\ InitCanvas
    /\ InitTool
    /\ InitAgent
    /\ debouncer = NoDebouncer
    /\ stages = NoStages
    /\ autosave = NoAutosave
    /\ \E vx \in Origins, vy \in Origins, vw \in Dims, vh \in Dims, iw \in Dims, ih \in Dims :
        fit = [vb |-> [x |-> vx, y |-> vy, w |-> vw, h |-> vh],
               img |-> [w |-> iw, h |-> ih],
               shape |-> NoShape]

NextFit == Place

SpecFit == InitFit /\ [][NextFit]_vars

\* A canvas under review: pending artifacts of earlier suggestions (ids grow in
\* creation order, rejected ones are gone) and the user's own shapes; the accept
\* and reject handlers are applied to any pending id.
RECURSIVE IsIncreasing(_)
IsIncreasing(s) ==
    \/ Len(s) <= 1
    \/ s[1] < s[2] /\ IsIncreasing(Tail(s))

PendingLists ==
    {s \in UNION {[1..n -> 1..MaxPending] : n \in 0..MaxPending} : IsIncreasing(s)}

InitReview ==
    /\ view \in Views
    /\ pendingImageIds \in PendingLists
    /\ \E drawn \in SUBSET UserIds :
        shapes = [i \in Range(pendingImageIds) \cup drawn |->
                    IF i \in drawn
                    THEN [opacity |-> OpacityFull, isLocked |-> FALSE, vb |-> 0]
                    ELSE [opacity |-> OpacityPending, isLocked |-> TRUE, vb |-> 1]]
    /\ assets = 1..MaxPending
    /\ nextShape = MaxPending + 1
    /\ viewport = 1
    /\ status = "idle"
    /\ errorMessage = ""
    /\ isVoiceSessionActive = FALSE
    /\ assistanceMode = (IF view = "board" THEN "suggest" ELSE "off")
    /\ isProcessingRef = FALSE
    /\ abortControllerRef = NoReq
    /\ lastCanvasImageRef = NoImage
    /\ isUpdatingImageRef = FALSE
    /\ flagTimers = <<>>
    /\ pendingNotify = FALSE
    /\ timeoutRef = TRUE
    /\ successTimers = 0
    /\ errorTimers = 0
    /\ voice = "idle"
    /\ voicePending = <<>>
    /\ req = [r \in Slots |-> IdleReq]
    /\ InitTool
    /\ InitAgent
    /\ InitUnits

NextReview ==
    \/ \E id \in Range(pendingImageIds) : Accept(id)
    \/ \E id \in Range(pendingImageIds) : Reject(id)
    \/ UserMutation
    \/ Notify
    \/ FlagTimerFire

SpecReview == InitReview /\ [][NextReview]_vars

\* A canvas under review on which a request may be waiting for its image to
\* decode, with an editor whose writes can throw.  The store delivers every
\* write to its listeners and every timer that has been set elapses.
InitWrite ==
    /\ view \in Views
    /\ pendingImageIds \in PendingLists
    /\ \E drawn \in SUBSET UserIds :
        /\ shapes = [i \in Range(pendingImageIds) \cup drawn |->
                        IF i \in drawn
                        THEN [opacity |-> OpacityFull, isLocked |-> FALSE, vb |-> 0]
                        ELSE [opacity |-> OpacityPending, isLocked |-> TRUE, vb |-> 1]]
        /\ \E decoding \in BOOLEAN :
            /\ decoding => drawn # {}
            /\ status = (IF decoding THEN "generating" ELSE "idle")
            /\ isProcessingRef = decoding
            /\ abortControllerRef = (IF decoding THEN 1 ELSE NoReq)
            /\ lastCanvasImageRef = (IF decoding THEN Render(drawn, 1) ELSE NoImage)
            /\ timeoutRef = ~decoding
            /\ req = [r \in Slots |->
                        IF decoding /\ r = 1
                        THEN [IdleReq EXCEPT !.pc = "decode", !.vp = 1]
                        ELSE IdleReq]
    /\ assets = 1..MaxPending
    /\ nextShape = MaxPending + 1
    /\ viewport = 1
    /\ errorMessage = ""
    /\ isVoiceSessionActive = FALSE
    /\ assistanceMode = (IF view = "board" THEN "suggest" ELSE "off")
    /\ isUpdatingImageRef = FALSE
    /\ flagTimers = <<>>
    /\ pendingNotify = FALSE
    /\ successTimers = 0
    /\ errorTimers = 0
    /\ voice = "idle"
    /\ voicePending = <<>>
    /\ InitTool
    /\ InitAgent
    /\ InitUnits

NextWrite ==
    \/ ClickAccept
    \/ ClickReject
    \/ ReviewWriteThrows
    \/ \E r \in Slots : AfterDecode(r)
    \/ \E r \in Slots : MaterializeThrows(r)
    \/ UserMutation
    \/ Notify
    \/ FlagTimerFire
    \/ SuccessTimerFire
    \/ ErrorTimerFire

SpecWrite == InitWrite /\ [][NextWrite]_vars

SpecWriteFair == SpecWrite /\ WF_vars(Notify) /\ WF_vars(FlagTimerFire)

\* the frame of the auto-save effect's own steps
AutosaveFrame ==
    UNCHANGED <<view, canvasVars, uiVars, refVars, timerVars, voiceVars, reqVars, toolVars,
                sessionVars, callVars, debouncer, fit, stages>>

\* the auto-save effect runs once the editor is there: the listener is
\* registered; the document is the one loaded from the database
AutosaveMount ==
    /\ view = "board"
    /\ ~autosave.mounted
    /\ autosave' = [mounted |-> TRUE, saveTimeout |-> FALSE, shapes |-> shapes,
                    assets |-> assets]
    /\ AutosaveFrame

\* the 2 s timer elapses online: getSnapshot(editor.store) is written to the
\* whiteboards row
SaveTimerFire ==
    /\ autosave.saveTimeout
    /\ autosave' = [autosave EXCEPT !.saveTimeout = FALSE, !.shapes = shapes,
                                    !.assets = assets]
    /\ AutosaveFrame

\* The board view under review with its auto-save effect; no write throws and
\* the browser stays online.
NextSave ==
    \/ AutosaveMount
    \/ SaveTimerFire
    \/ ClickAccept
    \/ ClickReject
    \/ \E r \in Slots : AfterDecode(r)
    \/ UserMutation
    \/ Notify
    \/ FlagTimerFire
    \/ SuccessTimerFire
    \/ ErrorTimerFire

SpecSave == InitWrite /\ [][NextSave]_vars

\* every timer elapses and every write reaches the listeners
SpecSaveFair ==
    /\ SpecSave
    /\ WF_vars(AutosaveMount)
    /\ WF_vars(SaveTimerFire)
    /\ WF_vars(Notify)
    /\ WF_vars(FlagTimerFire)
    /\ WF_vars(SuccessTimerFire)
    /\ WF_vars(ErrorTimerFire)
    /\ WF_vars(\E r \in Slots : AfterDecode(r))

\* The voice page: realtime events arrive in any order the protocol allows (a
\* call's done event is its last).
InitVoicePage ==
    /\ view = "voice"
    /\ InitCanvas
    /\ InitTool
    /\ InitAgent
    /\ InitUnits

NextTool ==
    \/ StartSession
    \/ TokenReceived
    \/ MediaGranted
    \/ SessionStarted
    \/ DataChannelOpen
    \/ StopSession
    \/ \E c \in CallIds, chunk \in Strings \cup {Undefined} : ArgumentsDelta(c, chunk)
    \/ \E c \in CallIds, a \in Strings \cup {Undefined} : ArgumentsDone(c, a)
    \/ OtherEvent

SpecTool == InitVoicePage /\ [][NextTool]_vars

\* ------------------------------------------------------------------ claims
\* generation requests that are active and have not been cancelled
InFlight == {r \in Slots : req[r].pc # "none" /\ ~req[r].aborted}

\* C1: in the board view at most one generation request that has not been
\* cancelled is active at any instant
C1_SingleFlight == view = "board" => Cardinality(InFlight) <= 1

\* C2: in the board view a user mutation that is not suppressed and arrives
\* while a request is in flight aborts every such request, sets the status to
\* idle and clears the in-flight flag
C2_CancelOnMutation ==
    [][(view = "board" /\ UserMutation /\ ~isUpdatingImageRef /\ InFlight # {})
         => /\ \A r \in InFlight : req'[r].aborted
            /\ status' = "idle"
            /\ ~isProcessingRef']_vars

\* a step of the call chain in slot r
Resumes(r) ==
    \/ AfterToImage(r)
    \/ AfterReader(r)
    \/ AfterFetch(r)
    \/ \E body \in Bodies : AfterJson(r, body)
    \/ AfterDecode(r)

\* C3: a request whose signal has been aborted creates no asset, no shape and
\* no pending entry, whichever suspension point it resumes from
C3_NoCancelledResult ==
    [][\A r \in Slots : req[r].aborted /\ Resumes(r)
         => UNCHANGED <<assets, shapes, pendingImageIds>>]_vars

\* C3: a cancelled request is waiting for its image to decode while the
\* canvas can still take a new shape
C3_Witness ==
    \E r \in Slots : req[r].pc = "decode" /\ req[r].aborted /\ nextShape <= MaxShapes

\* C4: an unforced run whose captured fingerprint equals the stored one issues no
\* AI request, leaves the stored fingerprint and the pending list unchanged and
\* ends with status idle and the in-flight flag cleared
C4_FingerprintShortCircuit ==
    [][\A r \in Slots :
         (AfterReader(r) /\ ~req[r].force /\ req[r].img = lastCanvasImageRef)
         => /\ req'[r].pc = "none"
            /\ lastCanvasImageRef' = lastCanvasImageRef
            /\ pendingImageIds' = pendingImageIds
            /\ status' = "idle"
            /\ ~isProcessingRef']_vars

\* C4: an unforced, uncancelled run has captured the stored fingerprint and its
\* FileReader is about to resolve
C4_Witness ==
    \E r \in Slots :
        /\ req[r].pc = "reader"
        /\ ~req[r].force
        /\ ~req[r].aborted
        /\ req[r].img = lastCanvasImageRef

\* C5: a response read with a null imageUrl ends the request with status idle,
\* sets no error message, creates no asset, shape or pending entry and clears
\* the in-flight flag
C5_NoImageNotError ==
    [][\A r \in Slots : AfterJson(r, "null")
         => /\ status' = "idle"
            /\ errorMessage' = errorMessage
            /\ errorTimers' = errorTimers
            /\ UNCHANGED <<assets, shapes, pendingImageIds>>
            /\ req'[r].pc = "none"
            /\ ~isProcessingRef']_vars

\* C5: an uncancelled request has its 2xx response and is reading the body,
\* while an earlier failure's message is still shown
C5_Witness ==
    \E r \in Slots : req[r].pc = "json" /\ ~req[r].aborted /\ errorMessage # ""

\* C6: in the board view materialization, accept and reject never start the
\* debouncer's countdown
C6_SelfMutationSuppression ==
    [][(/\ view = "board"
        /\ ~timeoutRef
        /\ ClickAccept \/ ClickReject \/ \E r \in Slots : AfterDecode(r))
         => ~timeoutRef']_vars

IsRemoval(old, new, id) ==
    \E k \in 1..Len(old) :
        /\ old[k] = id
        /\ new = SubSeq(old, 1, k - 1) \o SubSeq(old, k + 1, Len(old))

\* C8: in the board view accept(id) of a pending id removes exactly that entry
\* from the pending list and leaves the shape fully opaque and locked
C8_AcceptBoard ==
    [][\A id \in Range(pendingImageIds) : (view = "board" /\ Accept(id))
         => /\ IsRemoval(pendingImageIds, pendingImageIds', id)
            /\ id \in DOMAIN shapes'
            /\ shapes'[id].opacity = OpacityFull
            /\ shapes'[id].isLocked]_vars

\* C8: the middle one of three pending artifacts has been accepted in the
\* board view
C8_Witness ==
    /\ view = "board"
    /\ pendingImageIds = <<1, 3>>
    /\ 2 \in DOMAIN shapes
    /\ shapes[2].opacity = OpacityFull

\* C9: reject(id) of a pending id removes exactly that entry from the pending
\* list and the shape from the canvas, and changes no other shape
C9_Reject ==
    [][\A id \in Range(pendingImageIds) : Reject(id)
         => /\ IsRemoval(pendingImageIds, pendingImageIds', id)
            /\ DOMAIN shapes' = DOMAIN shapes \ {id}
            /\ \A j \in DOMAIN shapes' : shapes'[j] = shapes[j]]_vars

\* C9: the middle one of three pending artifacts has just been rejected
C9_Witness ==
    /\ pendingImageIds = <<1, 3>>
    /\ 2 \notin DOMAIN shapes
    /\ isUpdatingImageRef
    /\ pendingNotify

\* the string fragments of call c's delta events, concatenated in arrival order
RECURSIVE OwnFragments(_, _)
OwnFragments(log, c) ==
    IF log = <<>> THEN <<>>
    ELSE (IF /\ Head(log).type = "delta"
             /\ Head(log).call_id = c
             /\ Head(log).arguments # Undefined
          THEN Head(log).arguments
          ELSE <<>>) \o OwnFragments(Tail(log), c)

\* some delta event of call c carried a string
HasFragments(log, c) ==
    \E k \in 1..Len(log) :
        /\ log[k].type = "delta"
        /\ log[k].call_id = c
        /\ log[k].arguments # Undefined

\* the tool handler is called on done events only
DispatchOnlyOnDone ==
    dispatched' # dispatched
        => \E c \in CallIds, a \in Strings \cup {Undefined} : ArgumentsDone(c, a)

\* C10 as stated: the string dispatched on a call's done event is the
\* concatenation, in arrival order, of that call's own delta fragments; the
\* handler is called on done events only and the accumulator then has no entry
\* for the call
C10_ConcatenationOnly ==
    [][/\ \A c \in CallIds, a \in Strings \cup {Undefined} : ArgumentsDone(c, a)
            => /\ dispatched' = Append(dispatched,
                        [call_id |-> c, arguments |-> OwnFragments(eventLog, c)])
               /\ c \notin DOMAIN pendingToolArgs'
       /\ DispatchOnlyOnDone]_vars

\* C10, amended: as above when the call had a delta fragment; when it had none,
\* the string dispatched is the done event's own arguments (empty if it has none)
C10_Reassembly ==
    [][/\ \A c \in CallIds, a \in Strings \cup {Undefined} : ArgumentsDone(c, a)
            => /\ dispatched' = Append(dispatched,
                        [call_id |-> c,
                         arguments |-> IF HasFragments(eventLog, c)
                                       THEN OwnFragments(eventLog, c)
                                       ELSE IF a # Undefined THEN a ELSE <<>>])
               /\ c \notin DOMAIN pendingToolArgs'
       /\ DispatchOnlyOnDone]_vars

\* C10: a call whose two fragments arrived around a fragment of the other call
\* has been dispatched
C10_Witness ==
    \E i \in 1..Len(dispatched) :
        /\ dispatched[i].arguments = <<"{", "}">>
        /\ \E k \in 2..(Len(eventLog) - 1) :
            /\ eventLog[k].type = "delta"
            /\ eventLog[k].call_id # dispatched[i].call_id
            /\ eventLog[k].arguments = <<"}">>
            /\ eventLog[k - 1].call_id = dispatched[i].call_id
            /\ eventLog[k + 1].call_id = dispatched[i].call_id

\* the channel object the call chain of c sends on is open
CallChannelOpen(c) == IF calls[c].pc = "none" THEN rtc.dc = "open" ELSE calls[c].dcOpen

\* what a tool call can report
Outputs == {"analysis", "success", "error"}

\* C11: whenever the handling of a tool call ends while its data channel is
\* open, a function_call_output for its call id, immediately followed by
\* response.create, has been sent in that step
C11_EveryCallAnswered ==
    [][\A c \in CallIds :
         (calls[c].pc # "done" /\ calls'[c].pc = "done" /\ CallChannelOpen(c))
         => \E out \in Outputs : outbox' = outbox \o Reply(c, out)]_vars

\* nothing of a voice session is left: channel and connection closed, their
\* refs cleared, no live track, no stream on the audio element, idle, unmuted
TornDown ==
    /\ rtc.dc \in {"none", "closed"} /\ ~rtc.dcRef
    /\ rtc.pc \in {"none", "closed"} /\ ~rtc.pcRef
    /\ rtc.tracks # "live"
    /\ ~rtc.srcObject
    /\ voiceStatus = IdleStatus
    /\ ~isMuted
    /\ ~isVoiceSessionActive

\* C12: every call of stopSession leaves the session torn down, and a call made
\* in a torn-down state changes nothing
C12_TeardownComplete ==
    [][(StopSession \/ StopSessionAgain)
         => /\ TornDown'
            /\ TornDown => UNCHANGED vars]_vars

\* the call chain in slot r, not cancelled, resumes from a call that failed: a
\* fetch that rejected or was not ok, a body that did not parse, an image that
\* did not load
Fails(r) ==
    /\ ~req[r].aborted
    /\ \/ AfterFetch(r) /\ req'[r].pc # "json"
       \/ AfterJson(r, "malformed")
       \/ AfterDecode(r) /\ shapes' = shapes

\* C13: a failure of a request that is not cancelled shows the error with its
\* message, clears the in-flight flag and the abort controller, schedules the
\* reset and neither starts a request nor arms the debouncer; while an error is
\* shown a reset is pending, and the reset returns the status to idle with the
\* message cleared and starts no request
C13_ErrorPolicy ==
    [][/\ \A r \in Slots : Fails(r)
            => /\ status' = "error"
               /\ errorMessage' # ""
               /\ ~isProcessingRef'
               /\ abortControllerRef' = NoReq
               /\ errorTimers' = errorTimers + 1
               /\ req' = [req EXCEPT ![r] = IdleReq]
               /\ timeoutRef' = timeoutRef
       /\ status' = "error" => errorTimers' > 0
       /\ ErrorTimerFire
            => /\ status' = "idle"
               /\ errorMessage' = ""
               /\ req' = req
               /\ timeoutRef' = timeoutRef]_vars

\* C13: a failure is being shown, its reset is pending and no request is active
C13_Witness ==
    /\ status = "error"
    /\ errorMessage # ""
    /\ errorTimers > 0
    /\ Live = {}

\* C14: a cancelled request, resuming from any stage and whatever its pending
\* call returned, never puts the status into error, never sets an error message
\* and schedules no error reset
C14_CancelNotError ==
    [][\A r \in Slots : (req[r].aborted /\ Resumes(r))
         => /\ status' # "error" \/ status' = status
            /\ errorMessage' = errorMessage
            /\ errorTimers' = errorTimers]_vars

\* C14: a cancelled request is waiting for its fetch, which will reject, while
\* no error is shown
C14_Witness ==
    \E r \in Slots :
        /\ req[r].pc = "fetch"
        /\ req[r].aborted
        /\ status # "error"
        /\ errorMessage = ""

\* the draw_on_canvas call c whose arguments parse and ask for mode m
DrawCall(c, m) ==
    \E argsJson \in ArgsJson :
        /\ ParseArgs(argsJson).ok
        /\ DrawMode(ParseArgs(argsJson)) = m
        /\ HandleFunctionCall(c, "draw_on_canvas", argsJson)

\* a call chain starts in this step, forced and with mode m
StartsForced(m) ==
    \E r \in Slots :
        /\ req[r].pc = "none"
        /\ req'[r].pc = "toImage"
        /\ req'[r].force
        /\ req'[r].mode = m
        /\ abortControllerRef' = r

\* a forced call chain that was not cancelled issues the generate-solution
\* request with its mode, whatever the stored fingerprint is
ForcedReachesFetch ==
    \A r \in Slots : (AfterReader(r) /\ req[r].force /\ ~req[r].aborted)
        => /\ req'[r].pc = "fetch"
           /\ req'[r].mode = req[r].mode
           /\ status' = "generating"

C16_DrawReportsOutcome ==
    [][\A r \in Slots, c \in CallIds : (c \in Awaiting(r) /\ calls[c].dcOpen)
         => /\ Fails(r) => outbox' = outbox \o Reply(c, "error")
            /\ (AfterDecode(r) /\ shapes' # shapes)
                 => outbox' = outbox \o Reply(c, "success")]_vars

\* C17: a document-mutation event that arrives while the suppression flag is
\* set neither resets a running countdown nor starts a new one: the handle, the
\* live timers, the number of timers ever scheduled and the number of callback
\* runs are exactly what they were before the event.
C17_SuppressedEventKeepsTimer ==
    [][(HookHistoryChange /\ isUpdatingImageRef) => debouncer' = debouncer]_vars

\* a countdown is running while the flag is set, and one has already elapsed
\* and left no timer while the flag is set
C17_Witness ==
    /\ debouncer.mounted
    /\ isUpdatingImageRef
    /\ debouncer.timeouts # {}
    /\ debouncer.nextId > 2

\* C18: at most one countdown is live, and it is the one whose handle the hook
\* holds (every reset has cancelled the prior one); the callback runs only by a
\* live countdown elapsing, once, and that countdown is then gone; while the
\* hook is not mounted no countdown is live, so the callback cannot run.
C18_TimerDiscipline ==
    [][ /\ Cardinality(debouncer'.timeouts) <= 1
        /\ debouncer'.timeouts \subseteq {debouncer'.timeoutRef}
        /\ ~debouncer'.mounted => debouncer'.timeouts = {}
        /\ debouncer'.calls # debouncer.calls =>
            /\ debouncer.mounted
            /\ debouncer'.calls = debouncer.calls + 1
            /\ debouncer'.timeouts = {}
            /\ debouncer.timeouts # {} ]_vars

\* the callback has run, countdowns have been reset, and the hook has been torn
\* down with nothing left live
C18_Witness ==
    /\ ~debouncer.mounted
    /\ debouncer.calls >= 1
    /\ debouncer.nextId > 3
    /\ debouncer.timeouts = {}

\* what a capture taken now would be compared with lastCanvasImageRef
Fingerprint == Render(ShapesToCapture(DOMAIN shapes, pendingImageIds), viewport)

\* C19: accepting or rejecting a pending artifact does not change the
\* fingerprint: the capture taken after the step equals the capture taken
\* before it, which left the artifact out because it was pending.
C19_ReviewKeepsFingerprint ==
    [][(\E id \in Range(pendingImageIds) : Accept(id) \/ Reject(id))
        => Fingerprint' = Fingerprint]_vars

\* C20: a placed shape has size (imageW*s, imageH*s) where s is the smaller of
\* viewportW/imageW and viewportH/imageH; so it lies within the viewport, keeps
\* the image's aspect ratio and has equal margins left and right, and above and
\* below; an image of 1600x400 in a viewport of 800x600 becomes a shape of
\* 800x200 at (viewportX + 0, viewportY + 200).
C20_ScaleToFit ==
    fit.shape # NoShape =>
        LET vb == fit.vb
            img == fit.img
            sh == fit.shape
            right == Whole(vb.x + vb.w)
            bottom == Whole(vb.y + vb.h)
        IN  /\ \E s \in {Frac(vb.w, img.w), Frac(vb.h, img.h)} :
                /\ LessEq(s, Frac(vb.w, img.w))
                /\ LessEq(s, Frac(vb.h, img.h))
                /\ sh.w = Times(Whole(img.w), s)
                /\ sh.h = Times(Whole(img.h), s)
            /\ LessEq(Whole(vb.x), sh.x) /\ LessEq(Plus(sh.x, sh.w), right)
            /\ LessEq(Whole(vb.y), sh.y) /\ LessEq(Plus(sh.y, sh.h), bottom)
            /\ Times(sh.w, Whole(img.h)) = Times(sh.h, Whole(img.w))
            /\ Minus(sh.x, Whole(vb.x)) = Minus(right, Plus(sh.x, sh.w))
            /\ Minus(sh.y, Whole(vb.y)) = Minus(bottom, Plus(sh.y, sh.h))
            /\ (vb.w = 800 /\ vb.h = 600 /\ img.w = 1600 /\ img.h = 400) =>
                /\ sh.w = Whole(800)
                /\ sh.h = Whole(200)
                /\ sh.x = Whole(vb.x)
                /\ sh.y = Whole(vb.y + 200)

\* the image of 1600x400 has been placed in a viewport of 800x600 whose corner
\* is not the origin
C20_Witness ==
    /\ fit.shape # NoShape
    /\ fit.vb = [x |-> 50, y |-> -300, w |-> 800, h |-> 600]
    /\ fit.img = [w |-> 1600, h |-> 400]

\* the microphone is silent: every audio track of the session is disabled
TracksDisabled == rtc.tracks = "live" => ~rtc.enabled

\* C21: toggling mute changes the enabled flag of the tracks and nothing else
\* of the session (connection, channel, session-active flag, voice status); in
\* an active session the view is muted if and only if the tracks are disabled;
\* and a tool call dispatched while muted whose handling ends with the channel
\* open has been answered.
C21_MuteKeepsSessionLive ==
    [][ /\ ToggleMute =>
            /\ rtc' = [rtc EXCEPT !.enabled = ~isMuted']
            /\ UNCHANGED <<isVoiceSessionActive, voiceStatus, voice, calls, outbox>>
        /\ (view = "board" /\ isVoiceSessionActive') => (isMuted' <=> TracksDisabled')
        /\ \A c \in CallIds :
            (isMuted /\ calls[c].pc = "none" /\ calls'[c].pc = "done" /\ rtc'.dc = "open")
            => \E out \in Outputs : outbox' = outbox \o Reply(c, out) ]_vars

\* C22: when microphone access is denied at session start, the step that
\* handles the denial (catch block and teardown) leaves a permission-denied
\* status displayed, which is neither the idle status nor the status of any
\* other start failure.
C22_PermissionDeniedShown ==
    [][MediaDenied =>
        /\ voiceStatus' = CatchStatus("NotAllowedError")
        /\ voiceStatus' # IdleStatus
        /\ voiceStatus' # CatchStatus("Error")]_vars

\* C23: the step that materializes the result of a run creates exactly one
\* shape and exactly one asset and changes no existing shape; the new shape is
\* locked; in feedback mode it has full opacity and the pending list is
\* unchanged, in the other modes it has reduced opacity and its id is appended
\* to the end of the pending list.
C23_MaterializationByMode ==
    [][\A r \in Slots :
        (AfterDecode(r) /\ nextShape' # nextShape) =>
            LET id == nextShape
            IN  /\ id \notin DOMAIN shapes
                /\ DOMAIN shapes' = DOMAIN shapes \cup {id}
                /\ \A i \in DOMAIN shapes : shapes'[i] = shapes[i]
                /\ shapes'[id].isLocked
                /\ id \notin assets
                /\ assets' = assets \cup {id}
                /\ IF req[r].isFeedbackMode
                   THEN /\ shapes'[id].opacity = OpacityFull
                        /\ pendingImageIds' = pendingImageIds
                   ELSE /\ shapes'[id].opacity = OpacityPending
                        /\ pendingImageIds' = Append(pendingImageIds, id)]_vars

\* a feedback run has just put its shape on the board at full opacity with
\* nothing pending
C23_Witness ==
    /\ view = "board"
    /\ assistanceMode = "feedback"
    /\ status = "success"
    /\ 1 \in DOMAIN shapes
    /\ shapes[1].opacity = OpacityFull /\ shapes[1].isLocked
    /\ pendingImageIds = <<>>
    /\ Len(flagTimers) = 1
    /\ \E i \in UserIds : i \in DOMAIN shapes

\* the mode a debounce trigger runs in: the selected mode in the board view (the
\* home view has no modes)
EffectiveModeOff == view = "board" /\ assistanceMode = "off"

\* every shape on the canvas is a pending artifact
AllPending == DOMAIN shapes # {} /\ DOMAIN shapes \subseteq Range(pendingImageIds)

\* C24: a debounce trigger that arrives while another request is in flight, on
\* an empty canvas or with the mode off starts nothing and changes neither the
\* in-flight flag, the controller, the stored fingerprint nor the status; a
\* trigger on a canvas whose shapes are all pending starts nothing either and
\* ends with the in-flight flag cleared, the stored fingerprint unchanged and
\* no status or error shown.
C24_EntryGuards ==
    [][DebounceFire =>
        /\ (InFlight # {} \/ DOMAIN shapes = {} \/ EffectiveModeOff) =>
                UNCHANGED <<isProcessingRef, abortControllerRef, req, status,
                            errorMessage, lastCanvasImageRef>>
        /\ (InFlight = {} /\ AllPending /\ ~EffectiveModeOff) =>
                /\ req' = req
                /\ ~isProcessingRef'
                /\ UNCHANGED <<status, errorMessage, lastCanvasImageRef>>]_vars

\* C25: at the comparison step of a run that has not been cancelled, a forced
\* run issues the generate-solution call and stores the captured fingerprint
\* even when it equals the stored one; an unforced run issues the call only if
\* the captured fingerprint differs from the stored one, and the captured
\* fingerprint is then the stored one when the call is issued; an unforced run
\* whose fingerprint is equal issues nothing and leaves the stored one alone.
C25_ForcedBypass ==
    [][\A r \in Slots :
        (AfterReader(r) /\ ~req[r].aborted) =>
            /\ req[r].force =>
                /\ req'[r].pc = "fetch"
                /\ lastCanvasImageRef' = req[r].img
            /\ ~req[r].force =>
                /\ req'[r].pc = "fetch" <=> req[r].img # lastCanvasImageRef
                /\ req'[r].pc = "fetch" => lastCanvasImageRef' = req[r].img
                /\ req'[r].pc # "fetch" =>
                    /\ req'[r].pc = "none"
                    /\ lastCanvasImageRef' = lastCanvasImageRef]_vars

\* a forced run and an unforced run, neither cancelled, are both at the
\* comparison step with a capture equal to the stored fingerprint
C25_Witness ==
    \E r, q \in Slots :
        /\ req[r].pc = "reader" /\ req[r].force /\ ~req[r].aborted
        /\ req[r].img = lastCanvasImageRef
        /\ req[q].pc = "reader" /\ ~req[q].force /\ ~req[q].aborted
        /\ req[q].img = lastCanvasImageRef

\* a step in which the pipeline itself writes to the canvas: a materialization,
\* an accept or a reject
PipelineWrite ==
    \/ \E r \in Slots : AfterDecode(r) /\ nextShape' # nextShape
    \/ ClickAccept
    \/ ClickReject

\* C26: every canvas write of the pipeline is made with the suppression flag
\* set, and the flag is set for as long as the 100 ms grace window of any such
\* write is still open, also when the windows of two writes overlap.
C26_SuppressionCoversWrites ==
    [][ /\ PipelineWrite => isUpdatingImageRef'
        /\ flagTimers' # <<>> => isUpdatingImageRef' ]_vars

\* C27: whenever the suppression flag is set it is eventually cleared again,
\* also when the write that follows the setting of the flag throws.
C27_FlagIsTransient == isUpdatingImageRef ~> ~isUpdatingImageRef

\* the calls of the current request follow the order of the stages
IsPrefix(a, b) == Len(a) <= Len(b) /\ \A i \in 1..Len(a) : a[i] = b[i]

\* C28: the calls of one request are issued and completed in the order OCR,
\* need-check, generate, each issued after the one before it has completed;
\* when the need-check says that no help is needed, no generate call is issued
\* and the request ends in idle with the in-flight flag cleared and no error;
\* a response that is not 2xx, in any stage of a request that has not been
\* cancelled, ends the request in error.
C28_StageOrdering ==
    [][ /\ IsPrefix(stages'.log, StageOrder)
        /\ (CheckData(TRUE, FALSE) /\ ~stages.aborted) =>
                /\ stages'.log = stages.log
                /\ stages'.pc = "none"
                /\ stages'.status = "idle"
                /\ ~stages'.isProcessingRef
                /\ stages'.errorMessage = stages.errorMessage
                /\ stages'.errorTimer = stages.errorTimer
        /\ (StageResponse("http_error") /\ ~stages.aborted) =>
                /\ stages'.status = "error"
                /\ stages'.pc = "none"
                /\ stages'.log = stages.log
                /\ ~stages'.isProcessingRef ]_vars

\* a request has gone through all three calls in order, and an earlier request
\* was ended by the need-check or by an error
C28_Witness ==
    /\ stages.log = StageOrder
    /\ stages.runs = 2
    /\ stages.pc = "generate_done"

\* the voice session is up: channel and connection open and held by their refs,
\* the session marked active
SessionUp ==
    /\ rtc.dc = "open" /\ rtc.dcRef
    /\ rtc.pc = "open" /\ rtc.pcRef
    /\ view = "board" => isVoiceSessionActive

\* C29: a tool call whose arguments are not valid JSON has its failure written
\* out, no exception leaves the handler, and the step changes nothing of the
\* voice session: channel and connection stay open, the session stays active,
\* so that the guard under which later tool calls are dispatched still holds.
\* Nothing is sent for the call.
C29_MalformedArgumentsTolerated ==
    [][ /\ \A c \in CallIds, name \in ToolNames :
            HandleFunctionCall(c, name, "{")
            => /\ calls'[c].reported /\ ~calls'[c].escaped
               /\ UNCHANGED <<rtc, isMuted, voice, isVoiceSessionActive, outbox>>
               /\ SessionUp'
        /\ \A c \in CallIds :
            (view = "voice" /\ ArgumentsDoneFor(c, "get_weather", <<"{">>))
            => /\ calls'[c].reported /\ ~calls'[c].escaped
               /\ UNCHANGED <<rtc, isMuted, voice, isVoiceSessionActive, outbox>>
               /\ rtc'.dc = "open" /\ rtc'.pc = "open" ]_vars

\* a call with malformed arguments has been reported and left unanswered, and
\* the call that arrived after it has been dispatched and answered on the
\* channel that is still open
C29_Witness ==
    /\ calls["call_1"].reported /\ ~calls["call_1"].escaped
    /\ \E out \in Outputs \cup {"result"} : outbox = Reply("call_2", out)
    /\ rtc.dc = "open" /\ rtc.pc = "open"

\* the call chain of tool call c ends in this step with a failure: its catch
\* block has run
ToolFails(c) ==
    calls[c].pc \notin {"none", "done"} /\ calls'[c].pc = "done" /\ calls'[c].reported

\* C30: no exception leaves handleFunctionCall, and a tool call that fails
\* ends with the error status shown and the error output sent, also when the
\* session was stopped while the call was awaiting its result.
C30_ToolErrorsNeverEscape ==
    [][\A c \in CallIds :
         /\ ~calls'[c].escaped
         /\ ToolFails(c) => voiceStatus' = "error" ]_vars

\* C31: after reject(id) for a pending artifact neither the shape nor the
\* asset record created for it (same number) is in the document.
C31_RejectRemovesAsset ==
    [][\A id \in Range(pendingImageIds) :
         Reject(id) => id \notin DOMAIN shapes' /\ id \notin assets']_vars

\* C32: in the home view accept(id) removes exactly that entry from the pending
\* list and leaves the shape fully opaque and locked, as in the board view.
C32_AcceptHome ==
    [][\A id \in Range(pendingImageIds) :
         (view = "home" /\ Accept(id)) =>
             /\ pendingImageIds' = FilterOut(pendingImageIds, id)
             /\ id \in DOMAIN shapes'
             /\ shapes'[id].opacity = OpacityFull
             /\ shapes'[id].isLocked]_vars

\* C33: while a request is active and not cancelled the in-flight flag is true
\* and the controller slot holds that request's own controller; in particular
\* the finally block of an earlier request has cleared neither.
C33_FlagAndControllerOfCurrent ==
    \A r \in InFlight : isProcessingRef /\ abortControllerRef = r

C35_NoLeakedConnection ==
    view = "board" =>
        /\ rtc.orphan # "open"
        /\ (voice = "idle" /\ ~rtc.starting) => rtc.pc # "open" /\ rtc.tracks # "live"

\* C36: whenever a request that has not been cancelled is awaiting the
\* generate-solution response the displayed status is generating; no timer of
\* an earlier request's error or success display has reset it.
C36_StatusMatchesRequest ==
    \A r \in InFlight : req[r].pc = "fetch" => status = "generating"

\* C37: a shape created by the pipeline is placed in the viewport that is
\* current in the step that creates it, also when the user has panned or
\* zoomed since the request started.
C37_CenteredInCurrentViewport ==
    [][\A r \in Slots :
         (AfterDecode(r) /\ nextShape \in DOMAIN shapes') =>
             shapes'[nextShape].vb = viewport]_vars

\* the document holds a change that the last snapshot written does not
Unsaved ==
    /\ autosave.mounted
    /\ autosave.shapes # shapes \/ autosave.assets # assets

\* a step in which the user edits, accepts or rejects
UserEdits == UserMutation \/ ClickAccept \/ ClickReject

\* C38: in the mounted board view, unless the user keeps editing, every change
\* of the document (a user edit, a materialized artifact, an accept, a reject)
\* is eventually contained in a snapshot written by the auto-save.
C38_EventuallyPersisted ==
    []<>(~Unsaved) \/ []<><<UserEdits>>_vars

\* C39: while a tool call is running on a session that has not been torn down
\* (dispatched, its output not yet sent) the voice status is callingTool, or
\* error if the call failed; the response.done handler has not put it back to
\* listening.
C39_StatusDuringToolCall ==
    \A c \in CallIds :
        (calls[c].pc \notin {"none", "done"} /\ calls[c].dcOpen)
        => voiceStatus \in {"callingTool", "error"}

\* C40: while the voice session is active no unforced request that has not
\* been cancelled is in flight (seen at the stages at which a request still
\* carries its force option: before the capture and before the comparison).
C40_NoDebounceRequestDuringVoice ==
    (view = "board" /\ isVoiceSessionActive) =>
        \A r \in InFlight : req[r].pc \in {"toImage", "reader"} => req[r].force

====
